---- MODULE Spec2Model ----
(***************************************************************************)
(* A model of spec2tools' core: the Auth Manager (auth-manager.ts), the    *)
(* OpenAPI operation parser (openapi-parser, shipped in core/src/index.ts) *)
(* and the tool executor (tool-executor.ts).                               *)
(*                                                                         *)
(* Spec      the Auth Manager: authenticate() for every auth type, the     *)
(*           OAuth2 callback listener, its timer, and setAccessToken().    *)
(* SpecLive  the same actions, for MaxLiveAttempts calls, with the         *)
(*           fairness of the Node event loop.                              *)
(* SpecTools a session over one OpenAPI document: the document is loaded   *)
(*           and parsed into tools, a credential is set, tools are invoked.*)
(***************************************************************************)
EXTENDS Integers, Sequences, FiniteSets, TLC

\* Bounds of the model.
MaxAttempts == 2      \* authenticate() calls made on one Auth Manager
MaxCallbacks == 2     \* HTTP requests that reach /callback, over all listeners
MaxLiveAttempts == 1  \* authenticate() calls made under SpecLive

\* const CALLBACK_PORT: the one loopback port every listener binds.
CALLBACK_PORT == 54321

Undefined == "undefined"
Attempts == 1..MaxAttempts

VARIABLES
  \* ---- AuthManager fields (auth-manager.ts:27-32)
  globalAuthConfig, accessToken, refreshToken, clientId, clientSecret, codeVerifier,
  \* ---- one entry per authenticate() call
  pc,          \* where the async call stands
  cfg,         \* the effective config of the call (authConfig ?? globalAuthConfig)
  thrown,      \* the error the call rejected with, by class name
  srv,         \* the call's http.Server: none / bound / bindFailed / closed
  tick,        \* the listen outcome's event ('listening' or 'error') is queued
  timer,       \* the 5-minute setTimeout: unset / armed / fired
  wait,        \* the promise returned by startCallbackServerAndAuthorize
  closeCalls,  \* how many times server.close() ran on the call's server
  inflight,    \* requests to /callback accepted by the listener, not yet handled
  firstEvent,  \* history: the first event delivered to the promise's callbacks
  browser,     \* the authorization URL handed to open()
  tokenReq,    \* the token request sent by exchangeCodeForToken
  accepted,    \* how many requests to /callback the listeners have accepted
  \* ---- a session over one OpenAPI document (cli.ts:55-103)
  doc,         \* the document the session was given
  session,     \* what the start of the session produced: base URL, tools, error
  lastCall     \* the last tool invocation: its input, the credential held when
               \* it was made, its request, its outcome

authVars == <<globalAuthConfig, accessToken, refreshToken, clientId, clientSecret,
              codeVerifier>>
callVars == <<pc, cfg, thrown, srv, tick, timer, wait, closeCalls, inflight,
              firstEvent, browser, tokenReq, accepted>>
toolVars == <<doc, session, lastCall>>
vars == <<authVars, callVars, toolVars>>

----------------------------------------------------------------------------
\* AuthConfig (types.ts:16-23); an absent optional field is Undefined.
Cfg(t, au, tu, h, in) ==
  [type |-> t, authorizationUrl |-> au, tokenUrl |-> tu, apiKeyHeader |-> h, apiKeyIn |-> in]

NoneConfig == Cfg("none", Undefined, Undefined, Undefined, Undefined)
BearerConfig == Cfg("bearer", Undefined, Undefined, Undefined, Undefined)
BasicConfig == Cfg("basic", Undefined, Undefined, Undefined, Undefined)
ApiKeyHeaderConfig == Cfg("apiKey", Undefined, Undefined, "X-API-Key", "header")
ApiKeyQueryConfig == Cfg("apiKey", Undefined, Undefined, "api_key", "query")
OAuthConfig == Cfg("oauth2", "https://as/authorize", "https://as/token", Undefined, Undefined)
OAuthNoTokenUrl == Cfg("oauth2", "https://as/authorize", Undefined, Undefined, Undefined)

\* The override argument left out: authenticate(), getAuthHeaders(), ...
NoOverride == Cfg(Undefined, Undefined, Undefined, Undefined, Undefined)

AuthConfigs == {NoneConfig, BearerConfig, BasicConfig, ApiKeyHeaderConfig,
                ApiKeyQueryConfig, OAuthConfig, OAuthNoTokenUrl}

\* The global configuration, whatever the argument.
Effective_Global(override, global) == global

\* authConfig ?? this.globalAuthConfig
Effective(override, global) == IF override = NoOverride THEN global ELSE override

\* JavaScript truthiness of an optional string: undefined and "" are falsy.
Truthy(s) == s \notin {Undefined, ""}

----------------------------------------------------------------------------
\* Inputs and the values the environment produces.
Answers == {" ", " tokA "}                      \* lines typed at a prompt
Trim(s) == CASE s = " " -> "" [] s = " tokA " -> "tokA" [] OTHER -> s
Tokens == {"tokB"}                               \* given to setAccessToken
IssuedToken == "tokO"                            \* access_token of the token response
ClientIdOf(a) == "client" \o ToString(a)         \* issued by the registration endpoint
SecretOf(a) == "secret" \o ToString(a)
VerifierOf(a) == "verifier" \o ToString(a)       \* crypto.randomBytes: fresh per call
Base64(u, p) == "b64(" \o u \o ":" \o p \o ")"

\* crypto.randomBytes(16): the state parameter of a call's authorization URL.
StateOf(a) == "state" \o ToString(a)

\* A request to /callback: its code, error and state query parameters.  A
\* request with a code carries the state of either call, or none.
CallbackRequests ==
  {[code |-> "code1", error |-> Undefined, state |-> s] :
     s \in {StateOf(a) : a \in Attempts} \cup {Undefined}}
  \cup {[code |-> Undefined, error |-> "access_denied", state |-> Undefined],
        [code |-> Undefined, error |-> Undefined, state |-> Undefined]}

NoPromise == [state |-> "none", value |-> Undefined]
Pending == [state |-> "pending", value |-> Undefined]
NoUrl == [client_id |-> Undefined, code_challenge |-> Undefined, state |-> Undefined]
NoRequest == [code |-> Undefined, client_id |-> Undefined, code_verifier |-> Undefined,
              client_secret |-> Undefined]

\* resolve()/reject() of a promise: only the first call settles it.
Settle(p, st, v) == IF p.state = "pending" THEN [state |-> st, value |-> v] ELSE p

\* server.close(): a listening server stops listening; on any other it is a no-op.
ServerClose(s) == IF s = "bound" THEN "closed" ELSE s

\* No document, no session, no invocation: the Auth Manager used on its own.
NoDoc == [kind |-> "none"]
NoSession == [phase |-> "none"]
NoCall == [op |-> "none", result |-> "none"]

\* new AuthManager(config): no credential, no registered client, and no
\* authenticate() call made yet.
NewAuthManager(config) ==
  /\ globalAuthConfig = config
  /\ accessToken = Undefined /\ refreshToken = Undefined
  /\ clientId = Undefined /\ clientSecret = Undefined /\ codeVerifier = Undefined
  /\ pc = [a \in Attempts |-> "idle"]
  /\ cfg = [a \in Attempts |-> NoOverride]
  /\ thrown = [a \in Attempts |-> "none"]
  /\ srv = [a \in Attempts |-> "none"]
  /\ tick = [a \in Attempts |-> FALSE]
  /\ timer = [a \in Attempts |-> "unset"]
  /\ wait = [a \in Attempts |-> NoPromise]
  /\ closeCalls = [a \in Attempts |-> 0]
  /\ inflight = [a \in Attempts |-> <<>>]
  /\ firstEvent = [a \in Attempts |-> "none"]
  /\ browser = [a \in Attempts |-> NoUrl]
  /\ tokenReq = [a \in Attempts |-> NoRequest]
  /\ accepted = 0

Init ==
  /\ \E config \in AuthConfigs : NewAuthManager(config)
  /\ doc = NoDoc /\ session = NoSession /\ lastCall = NoCall

----------------------------------------------------------------------------
\* The 'listening' and 'error' events of listen() are queued with
\* process.nextTick and run before any timer or I/O callback.
NoTick == \A b \in Attempts : ~tick[b]

\* A call that can still act: it is running, its timer is armed, its listener
\* is open or a request to it is not handled yet.
Alive(b) ==
  \/ pc[b] \notin {"idle", "done", "failed"}
  \/ timer[b] = "armed"
  \/ srv[b] = "bound"
  \/ inflight[b] # <<>>

\* The async call fails: the promise authenticate() returned rejects.
Throw(a, kind) ==
  /\ pc' = [pc EXCEPT ![a] = "failed"]
  /\ thrown' = [thrown EXCEPT ![a] = kind]

\* authenticate(authConfig?): the dispatch on the effective type, up to the
\* first await. performOAuth2Flow checks the two URLs and registerClient
\* issues its POST; the prompts ask their first question.
\* The caller makes its calls one after the other, and lets a call overlap
\* only the call made just before it (the second and third conjunct).
Authenticate(a, override) ==
  LET config == Effective(override, globalAuthConfig) IN
  /\ NoTick
  /\ pc[a] = "idle"
  /\ \A b \in Attempts : b < a => pc[b] # "idle"
  /\ \A b \in Attempts : b + 1 < a => ~Alive(b)
  /\ cfg' = [cfg EXCEPT ![a] = config]
  /\ CASE config.type = "oauth2" ->
            IF ~Truthy(config.authorizationUrl) \/ ~Truthy(config.tokenUrl)
              THEN Throw(a, "AuthenticationError")
              ELSE pc' = [pc EXCEPT ![a] = "registering"] /\ UNCHANGED thrown
       [] config.type \in {"apiKey", "bearer", "basic"} ->
            pc' = [pc EXCEPT ![a] = "prompting"] /\ UNCHANGED thrown
       [] OTHER ->
            pc' = [pc EXCEPT ![a] = "done"] /\ UNCHANGED thrown
  /\ UNCHANGED <<authVars, srv, tick, timer, wait, closeCalls, inflight, firstEvent,
                 browser, tokenReq, accepted>>
  /\ UNCHANGED toolVars

\* promptForApiKey / promptForBearerToken: the answer is stored, then tested.
PromptAnswer(a, answer) ==
  /\ NoTick
  /\ pc[a] = "prompting"
  /\ cfg[a].type \in {"apiKey", "bearer"}
  /\ accessToken' = Trim(answer)
  /\ IF ~Truthy(Trim(answer))
       THEN Throw(a, "AuthenticationError")
       ELSE pc' = [pc EXCEPT ![a] = "done"] /\ UNCHANGED thrown
  /\ UNCHANGED <<globalAuthConfig, refreshToken, clientId, clientSecret, codeVerifier,
                 cfg, srv, tick, timer, wait, closeCalls, inflight, firstEvent,
                 browser, tokenReq, accepted>>
  /\ UNCHANGED toolVars

\* promptForBasicAuth: both answers are tested before anything is stored.
PromptBasic(a, user, pass) ==
  /\ NoTick
  /\ pc[a] = "prompting"
  /\ cfg[a].type = "basic"
  /\ IF ~Truthy(Trim(user)) \/ ~Truthy(Trim(pass))
       THEN Throw(a, "AuthenticationError") /\ UNCHANGED accessToken
       ELSE /\ accessToken' = Base64(Trim(user), Trim(pass))
            /\ pc' = [pc EXCEPT ![a] = "done"]
            /\ UNCHANGED thrown
  /\ UNCHANGED <<globalAuthConfig, refreshToken, clientId, clientSecret, codeVerifier,
                 cfg, srv, tick, timer, wait, closeCalls, inflight, firstEvent,
                 browser, tokenReq, accepted>>
  /\ UNCHANGED toolVars

\* Outcomes of a fetch: a 2xx response, another status, a rejected fetch.
FetchOutcomes == {"ok", "httpError", "networkError"}

\* What a failed fetch makes the awaiting function throw: the code builds an
\* AuthenticationError only for a non-ok status; a rejected fetch passes
\* through as the TypeError it is.
FetchError(outcome) ==
  CASE outcome = "httpError" -> "AuthenticationError"
    [] outcome = "networkError" -> "TypeError"

\* The registration response arrives: registerClient stores the client id
\* and secret, and performOAuth2Flow goes on to startCallbackServerAndAuthorize,
\* whose promise executor creates the server, calls listen(), registers the
\* 'error' handler and arms the timer.  listen() binds at once: bindOk is
\* whether the port was free (another process may hold it).
RegisterResponse(a, outcome, withSecret, bindOk) ==
  /\ NoTick
  /\ pc[a] = "registering"
  /\ IF outcome = "ok"
       THEN /\ bindOk => \A b \in Attempts : srv[b] # "bound"
            /\ clientId' = ClientIdOf(a)
            /\ clientSecret' = IF withSecret THEN SecretOf(a) ELSE Undefined
            /\ srv' = [srv EXCEPT ![a] = IF bindOk THEN "bound" ELSE "bindFailed"]
            /\ tick' = [tick EXCEPT ![a] = TRUE]
            /\ timer' = [timer EXCEPT ![a] = "armed"]
            /\ wait' = [wait EXCEPT ![a] = Pending]
            /\ pc' = [pc EXCEPT ![a] = "waiting"]
            /\ UNCHANGED thrown
       ELSE /\ ~withSecret /\ ~bindOk
            /\ Throw(a, FetchError(outcome))
            /\ UNCHANGED <<clientId, clientSecret, srv, tick, timer, wait>>
  /\ UNCHANGED <<globalAuthConfig, accessToken, refreshToken, codeVerifier, cfg,
                 closeCalls, inflight, firstEvent, browser, tokenReq, accepted>>
  /\ UNCHANGED toolVars

Challenge(verifier) == "S256(" \o verifier \o ")"

\* Mutant: the listen callback opens the browser and stores no verifier.
OnListening_NoVerifier(a) ==
  /\ tick[a] /\ srv[a] = "bound"
  /\ tick' = [tick EXCEPT ![a] = FALSE]
  /\ browser' = [browser EXCEPT ![a] =
                   [client_id |-> clientId, code_challenge |-> Challenge(VerifierOf(a)),
                    state |-> StateOf(a)]]
  /\ UNCHANGED <<authVars, pc, cfg, thrown, srv, timer, wait, closeCalls, inflight,
                 firstEvent, tokenReq, accepted>>
  /\ UNCHANGED toolVars

\* The listen callback: buildAuthorizationUrl stores a fresh PKCE verifier,
\* puts a fresh state value into the URL, and the URL is handed to open().
OnListening(a) ==
  /\ tick[a] /\ srv[a] = "bound"
  /\ tick' = [tick EXCEPT ![a] = FALSE]
  /\ codeVerifier' = VerifierOf(a)
  /\ browser' = [browser EXCEPT ![a] =
                   [client_id |-> clientId, code_challenge |-> Challenge(VerifierOf(a)),
                    state |-> StateOf(a)]]
  /\ UNCHANGED <<globalAuthConfig, accessToken, refreshToken, clientId, clientSecret,
                 pc, cfg, thrown, srv, timer, wait, closeCalls, inflight, firstEvent,
                 tokenReq, accepted>>
  /\ UNCHANGED toolVars

\* What performOAuth2Flow does when the promise it awaits goes from wait[a]
\* to w: on a code, exchangeCodeForToken builds its request from the
\* manager's fields and sends it; on a rejection the call fails.
Resume(a, w) ==
  IF wait[a].state = "pending" /\ w.state = "fulfilled"
    THEN /\ pc' = [pc EXCEPT ![a] = "exchanging"]
         /\ tokenReq' = [tokenReq EXCEPT ![a] =
              [code |-> w.value, client_id |-> clientId, code_verifier |-> codeVerifier,
               client_secret |-> IF Truthy(clientSecret) THEN clientSecret ELSE Undefined]]
         /\ UNCHANGED thrown
    ELSE IF wait[a].state = "pending" /\ w.state = "rejected"
      THEN Throw(a, "AuthenticationError") /\ UNCHANGED tokenReq
      ELSE UNCHANGED <<pc, thrown, tokenReq>>

First(a, event) == [firstEvent EXCEPT ![a] = IF @ = "none" THEN event ELSE @]

\* server.on('error'): reject, the server is left as it is.
OnServerError(a) ==
  LET w == Settle(wait[a], "rejected", "Port " \o ToString(CALLBACK_PORT) \o " is already in use") IN
  /\ tick[a] /\ srv[a] = "bindFailed"
  /\ tick' = [tick EXCEPT ![a] = FALSE]
  /\ wait' = [wait EXCEPT ![a] = w]
  /\ firstEvent' = First(a, "bindFailure")
  /\ Resume(a, w)
  /\ UNCHANGED <<authVars, cfg, srv, timer, closeCalls, inflight, browser, accepted>>
  /\ UNCHANGED toolVars

\* A request to /callback reaches a listening server.
AcceptCallback(a, req) ==
  /\ NoTick
  /\ srv[a] = "bound"
  /\ accepted < MaxCallbacks
  /\ accepted' = accepted + 1
  /\ inflight' = [inflight EXCEPT ![a] = Append(@, req)]
  /\ UNCHANGED <<authVars, pc, cfg, thrown, srv, tick, timer, wait, closeCalls,
                 firstEvent, browser, tokenReq>>
  /\ UNCHANGED toolVars

\* The branch of the callback handler a request takes.
CallbackKind(req) ==
  IF Truthy(req.error) THEN "error" ELSE IF ~Truthy(req.code) THEN "empty" ELSE "code"

\* Mutant: the branch for a callback with neither code nor error forgets close().
ClosesOnCallback_NotOnEmpty(kind) == kind \in {"error", "code"}

\* Whether the handler's branch calls server.close() (lines 283, 298, 312).
ClosesOnCallback(kind) == kind \in {"error", "empty", "code"}

\* The handler of GET /callback, for the oldest accepted request.
HandleCallback(a) ==
  LET req == Head(inflight[a])
      kind == CallbackKind(req)
      w == CASE kind = "error" -> Settle(wait[a], "rejected", req.error)
             [] kind = "empty" -> Settle(wait[a], "rejected", "No authorization code received")
             [] kind = "code" -> Settle(wait[a], "fulfilled", req.code)
  IN
  /\ NoTick
  /\ inflight[a] # <<>>
  /\ inflight' = [inflight EXCEPT ![a] = Tail(@)]
  /\ IF ClosesOnCallback(kind)
       THEN /\ srv' = [srv EXCEPT ![a] = ServerClose(@)]
            /\ closeCalls' = [closeCalls EXCEPT ![a] = @ + 1]
       ELSE UNCHANGED <<srv, closeCalls>>
  /\ wait' = [wait EXCEPT ![a] = w]
  /\ firstEvent' = First(a, kind)
  /\ Resume(a, w)
  /\ UNCHANGED <<authVars, cfg, tick, timer, browser, accepted>>
  /\ UNCHANGED toolVars

\* Mutant: the server is a field of the manager, so the timer of a call
\* closes whichever listener is open when it fires.
Timeout_SharedServer(a) ==
  LET w == Settle(wait[a], "rejected", "Authentication timed out") IN
  /\ NoTick
  /\ timer[a] = "armed"
  /\ timer' = [timer EXCEPT ![a] = "fired"]
  /\ srv' = [b \in Attempts |-> ServerClose(srv[b])]
  /\ closeCalls' = [closeCalls EXCEPT ![a] = @ + 1]
  /\ wait' = [wait EXCEPT ![a] = w]
  /\ firstEvent' = First(a, "timeout")
  /\ Resume(a, w)
  /\ UNCHANGED <<authVars, cfg, tick, inflight, browser, accepted>>
  /\ UNCHANGED toolVars

\* Mutant: the timer tears the listener down and forgets to reject.
Timeout_NoReject(a) ==
  /\ NoTick
  /\ timer[a] = "armed"
  /\ timer' = [timer EXCEPT ![a] = "fired"]
  /\ srv' = [srv EXCEPT ![a] = ServerClose(@)]
  /\ closeCalls' = [closeCalls EXCEPT ![a] = @ + 1]
  /\ UNCHANGED <<authVars, pc, cfg, thrown, tick, wait, inflight, firstEvent, browser,
                 tokenReq, accepted>>
  /\ UNCHANGED toolVars

\* The setTimeout callback, 5 minutes after the executor ran.  Nothing
\* clears the timer, so it fires whatever happened before.
Timeout(a) ==
  LET w == Settle(wait[a], "rejected", "Authentication timed out") IN
  /\ NoTick
  /\ timer[a] = "armed"
  /\ timer' = [timer EXCEPT ![a] = "fired"]
  /\ srv' = [srv EXCEPT ![a] = ServerClose(@)]
  /\ closeCalls' = [closeCalls EXCEPT ![a] = @ + 1]
  /\ wait' = [wait EXCEPT ![a] = w]
  /\ firstEvent' = First(a, "timeout")
  /\ Resume(a, w)
  /\ UNCHANGED <<authVars, cfg, tick, inflight, browser, accepted>>
  /\ UNCHANGED toolVars

\* Mutant: the token is stored before the status of the response is tested.
ExchangeResponse_StoresFirst(a, outcome) ==
  /\ NoTick
  /\ pc[a] = "exchanging"
  /\ accessToken' = IssuedToken
  /\ refreshToken' = "refresh-" \o IssuedToken
  /\ IF outcome = "ok"
       THEN pc' = [pc EXCEPT ![a] = "done"] /\ UNCHANGED thrown
       ELSE Throw(a, FetchError(outcome))
  /\ UNCHANGED <<globalAuthConfig, clientId, clientSecret, codeVerifier, cfg, srv, tick,
                 timer, wait, closeCalls, inflight, firstEvent, browser, tokenReq,
                 accepted>>
  /\ UNCHANGED toolVars

\* The token response arrives (exchangeCodeForToken after its fetch).
ExchangeResponse(a, outcome) ==
  /\ NoTick
  /\ pc[a] = "exchanging"
  /\ IF outcome = "ok"
       THEN /\ accessToken' = IssuedToken
            /\ refreshToken' = "refresh-" \o IssuedToken
            /\ pc' = [pc EXCEPT ![a] = "done"]
            /\ UNCHANGED thrown
       ELSE /\ Throw(a, FetchError(outcome))
            /\ UNCHANGED <<accessToken, refreshToken>>
  /\ UNCHANGED <<globalAuthConfig, clientId, clientSecret, codeVerifier, cfg, srv, tick,
                 timer, wait, closeCalls, inflight, firstEvent, browser, tokenReq,
                 accepted>>
  /\ UNCHANGED toolVars

\* setAccessToken(token)
SetAccessToken(token) ==
  /\ NoTick
  /\ accessToken' = token
  /\ UNCHANGED <<globalAuthConfig, refreshToken, clientId, clientSecret, codeVerifier,
                 callVars>>
  /\ UNCHANGED toolVars

\* The steps of the calls in A.
NextOf(A) ==
  \/ \E a \in A : Authenticate(a, NoOverride)
  \/ \E a \in A, ans \in Answers : PromptAnswer(a, ans)
  \/ \E a \in A, u \in Answers, p \in Answers : PromptBasic(a, u, p)
  \/ \E a \in A, o \in FetchOutcomes, s \in BOOLEAN, b \in BOOLEAN :
       RegisterResponse(a, o, s, b)
  \/ \E a \in A : OnListening(a)
  \/ \E a \in A : OnServerError(a)
  \/ \E a \in A, r \in CallbackRequests : AcceptCallback(a, r)
  \/ \E a \in A : HandleCallback(a)
  \/ \E a \in A : Timeout(a)
  \/ \E a \in A, o \in FetchOutcomes : ExchangeResponse(a, o)
  \/ \E t \in Tokens : SetAccessToken(t)

Next == NextOf(Attempts)

Spec == Init /\ [][Next]_vars

\* The event loop runs every queued callback and every expired timer.
Fairness ==
  \A a \in Attempts :
    /\ WF_vars(OnListening(a))
    /\ WF_vars(OnServerError(a))
    /\ WF_vars(HandleCallback(a))
    /\ WF_vars(Timeout(a))

NextLive == NextOf(1..MaxLiveAttempts)

SpecLive == Init /\ [][NextLive]_vars /\ Fairness

----------------------------------------------------------------------------
\* The OAuth2 callback wait (claims C1-C3).

Ended(a) == pc[a] \in {"done", "failed"}
Settled(a) == wait[a].state \in {"fulfilled", "rejected"}

\* C1: once one of the five outcomes (valid callback, error callback, callback
\* with neither code nor error, port-bind failure, timeout) has been delivered
\* to the wait, and once the authenticate() call has completed, the listener
\* that call started is not open.
C1_ListenerClosedOnEveryOutcome ==
  \A a \in Attempts : (firstEvent[a] # "none" \/ Settled(a) \/ Ended(a)) => srv[a] # "bound"

\* A call that failed on a callback with neither code nor error, listener closed.
C1_Witness ==
  \E a \in Attempts :
    /\ pc[a] = "failed" /\ firstEvent[a] = "empty"
    /\ srv[a] = "closed" /\ closeCalls[a] = 1

\* C2: server.close() runs at most once on the listener of an attempt, whatever
\* callbacks, server errors and timer events follow each other.
C2_CloseAtMostOnce == \A a \in Attempts : closeCalls[a] <= 1

\* C3: the wait always eventually completes; what it completes with is decided
\* by the first event alone (the code on a valid callback, AuthenticationError
\* on the four others) and no later event changes it.
C3_CompletesWithOneOutcome ==
  /\ \A a \in Attempts : (wait[a].state = "pending") ~> Settled(a)
  /\ [][\A a \in Attempts : Settled(a) => wait'[a] = wait[a]]_vars
  /\ [](\A a \in Attempts :
          /\ Settled(a) <=> firstEvent[a] # "none"
          /\ firstEvent[a] = "code" =>
               wait[a] = [state |-> "fulfilled", value |-> "code1"]
          /\ firstEvent[a] \in {"error", "empty", "bindFailure", "timeout"} =>
               /\ wait[a].state = "rejected"
               /\ pc[a] = "failed" /\ thrown[a] = "AuthenticationError")

\* The wait resolved with the code, and a second callback and the timer came after.
C3_Witness ==
  \E a \in Attempts :
    /\ wait[a] = [state |-> "fulfilled", value |-> "code1"]
    /\ timer[a] = "fired" /\ closeCalls[a] = 3 /\ inflight[a] = <<>>

----------------------------------------------------------------------------
\* JavaScript values and objects, as the parser and the executor see them.

\* obj.field of an object whose field is optional
Has(r, f) == f \in DOMAIN r
None == [defined |-> FALSE]
Some(v) == [defined |-> TRUE, value |-> v]
Field(r, f) == IF Has(r, f) THEN Some(r[f]) ELSE None
\* opt?.field
Chain(opt, f) == IF opt.defined THEN Field(opt.value, f) ELSE None

\* const name = value: the value is computed once, then used as name in F.
Bind(value, F(_)) == CHOOSE result \in {F(name) : name \in {value}} : TRUE

\* An object used as a dictionary keeps its keys in insertion order: a
\* sequence of entries with distinct keys.
EmptyObject == <<>>
Entry(k, v) == [key |-> k, value |-> v]
Keys(o) == Bind(o, LAMBDA obj : {obj[i].key : i \in DOMAIN obj})
HasKey(o, k) == k \in Keys(o)
Get(o, k) == Bind(o, LAMBDA obj : obj[CHOOSE i \in DOMAIN obj : obj[i].key = k].value)
\* o[k] = v: a known key keeps its place, a new key goes last
Put(o, k, v) ==
  Bind(o, LAMBDA obj :
    IF \E j \in DOMAIN obj : obj[j].key = k
      THEN LET i == CHOOSE j \in DOMAIN obj : obj[j].key = k
           IN SubSeq(obj, 1, i - 1) \o <<Entry(k, v)>> \o SubSeq(obj, i + 1, Len(obj))
      ELSE Append(obj, Entry(k, v)))
\* {...a, ...b}
RECURSIVE Spread(_, _)
Spread(a, b) ==
  Bind(b, LAMBDA rest :
    IF rest = <<>> THEN a ELSE Spread(Put(a, rest[1].key, rest[1].value), Tail(rest)))

\* A function either returns a value or throws an error of some class.
Ok(v) == [ok |-> TRUE, value |-> v]
Err(class, message) == [ok |-> FALSE, error |-> [class |-> class, message |-> message]]

----------------------------------------------------------------------------
\* Security schemes and their resolution (index.ts:106-198).

SchemeApiKeyHeader == [type |-> "apiKey", name |-> "X-API-Key", in |-> "header"]
SchemeApiKeyQuery == [type |-> "apiKey", name |-> "api_key", in |-> "query"]
SchemeApiKeyCookie == [type |-> "apiKey", name |-> "sid", in |-> "cookie"]
SchemeBearer == [type |-> "http", scheme |-> "bearer"]
SchemeBasic == [type |-> "http", scheme |-> "basic"]
SchemeOAuthCode ==
  [type |-> "oauth2",
   flows |-> [authorizationCode |-> [authorizationUrl |-> "https://as/authorize",
                                     tokenUrl |-> "https://as/token"]]]
SchemeOAuthImplicit ==
  [type |-> "oauth2", flows |-> [implicit |-> [authorizationUrl |-> "https://as/authorize"]]]
SchemeOpenId == [type |-> "openIdConnect"]

\* parseSecurityScheme(scheme, scopes); the scopes are carried into the oauth2
\* configuration unchanged and are left out of Cfg.
ParseSecurityScheme(scheme) ==
  IF scheme.type = "oauth2"
    THEN LET flow == Chain(Field(scheme, "flows"), "authorizationCode") IN
         IF ~flow.defined
           THEN Err("UnsupportedSchemaError", "Only OAuth2 authorization code flow is supported")
           ELSE Ok(Cfg("oauth2", flow.value.authorizationUrl, flow.value.tokenUrl,
                       Undefined, Undefined))
  ELSE IF scheme.type = "apiKey"
    THEN Ok(Cfg("apiKey", Undefined, Undefined, scheme.name, scheme.in))
  ELSE IF scheme.type = "http" /\ scheme.scheme = "bearer" THEN Ok(BearerConfig)
  ELSE IF scheme.type = "http" /\ scheme.scheme = "basic" THEN Ok(BasicConfig)
  ELSE Ok(NoneConfig)

\* extractAuthConfigFromSecurity(security, securitySchemes): both may be
\* undefined.  A security requirement is an object from scheme name to scopes;
\* the first key of the first requirement names the scheme.
ExtractAuthConfigFromSecurity(security, securitySchemes) ==
  IF security.defined /\ Len(security.value) = 0 THEN Ok(NoneConfig)
  ELSE IF ~securitySchemes.defined \/ ~security.defined THEN Ok(NoneConfig)
  ELSE LET securityReq == security.value[1]
           schemeName == IF securityReq = <<>> THEN Undefined ELSE securityReq[1].key
       IN IF ~HasKey(securitySchemes.value, schemeName)
            THEN Ok(NoneConfig)
            ELSE ParseSecurityScheme(Get(securitySchemes.value, schemeName))

\* extractAuthConfig(spec)
ExtractAuthConfig(spec) ==
  ExtractAuthConfigFromSecurity(Field(spec, "security"),
                                Chain(Field(spec, "components"), "securitySchemes"))

\* An empty security list sends the operation to the global security.
ExtractOperationAuthConfig_EmptyFallsBack(spec, operation) ==
  IF Has(operation, "security") /\ operation.security # <<>>
    THEN ExtractAuthConfigFromSecurity(Field(operation, "security"),
                                       Chain(Field(spec, "components"), "securitySchemes"))
    ELSE ExtractAuthConfig(spec)

\* extractOperationAuthConfig(spec, operation)
ExtractOperationAuthConfig(spec, operation) ==
  IF Has(operation, "security")
    THEN ExtractAuthConfigFromSecurity(Field(operation, "security"),
                                       Chain(Field(spec, "components"), "securitySchemes"))
    ELSE ExtractAuthConfig(spec)

----------------------------------------------------------------------------
\* The schema translator (index.ts:203-341).  A schema object is a record
\* holding the fields the document gives it; a $ref is the pair of its prefix
\* and the name behind it.  Descriptions only annotate the validator and are
\* left out.

MaxStack == 6   \* nested schemaToZod calls the JavaScript stack is given

ComponentsPrefix == "#/components/schemas/"
Ref(name) == <<ComponentsPrefix, name>>

\* The validators of zod the translator builds.
ZString == [kind |-> "string", optional |-> FALSE]
ZNumber == [kind |-> "number", optional |-> FALSE]
ZBoolean == [kind |-> "boolean", optional |-> FALSE]
ZEnum(values) == [kind |-> "enum", optional |-> FALSE, values |-> values]
ZArray(element) == [kind |-> "array", optional |-> FALSE, element |-> element]
ZObject(shape) == [kind |-> "object", optional |-> FALSE, shape |-> shape]
Optional(z) == [z EXCEPT !.optional = TRUE]

Unsupported(message) == Err("UnsupportedSchemaError", message)
TypeOf(schema) == IF Has(schema, "type") THEN schema.type ELSE Undefined
SeqToSet(s) == {s[i] : i \in DOMAIN s}

\* resolveRef(ref, spec, visited)
RECURSIVE ResolveRef(_, _, _)
ResolveRef(ref, spec, visited) ==
  IF ref \in visited THEN Unsupported("Circular $ref detected")
  ELSE IF ref[1] # ComponentsPrefix
    THEN Unsupported("Only #/components/schemas/ $refs are supported")
  ELSE LET schemas == Chain(Field(spec, "components"), "schemas") IN
       IF ~schemas.defined \/ ~HasKey(schemas.value, ref[2])
         THEN Unsupported("Schema not found in components")
         ELSE LET schema == Get(schemas.value, ref[2]) IN
              IF Has(schema, "ref")
                THEN ResolveRef(schema.ref, spec, visited \cup {ref})
                ELSE Ok(schema)

\* schemaToZod(schema, path, spec, depth, visited).  resolveRef is handed a
\* copy of visited, so visited itself stays as the caller gave it.  stack
\* counts the nested calls: past MaxStack the engine throws RangeError.
RECURSIVE SchemaToZod(_, _, _, _, _)
RECURSIVE PropertiesToShape(_, _, _, _, _, _, _)

SchemaToZod(schema, spec, depth, visited, stack) ==
  IF stack > MaxStack THEN Err("RangeError", "Maximum call stack size exceeded")
  ELSE IF Has(schema, "ref")
    THEN Bind(ResolveRef(schema.ref, spec, visited), LAMBDA resolved :
           IF ~resolved.ok THEN resolved
           ELSE SchemaToZod(resolved.value, spec, depth, visited, stack + 1))
  ELSE IF Has(schema, "anyOf") THEN Unsupported("anyOf is not supported")
  ELSE IF Has(schema, "oneOf") THEN Unsupported("oneOf is not supported")
  ELSE IF Has(schema, "allOf") THEN Unsupported("allOf is not supported")
  ELSE IF TypeOf(schema) = "array"
    THEN IF ~Has(schema, "items") THEN Unsupported("Array without items schema")
         ELSE IF TypeOf(schema.items) = "object"
           THEN Unsupported("Arrays of objects are not supported")
         ELSE Bind(SchemaToZod(schema.items, spec, depth, visited, stack + 1),
                   LAMBDA item : IF ~item.ok THEN item ELSE Ok(ZArray(item.value)))
  ELSE IF TypeOf(schema) = "object" \/ Has(schema, "properties")
    THEN IF depth > 1
           THEN Unsupported("Nested objects beyond 1 level are not supported")
           ELSE LET properties == IF Has(schema, "properties") THEN schema.properties
                                                              ELSE EmptyObject
                    required == IF Has(schema, "required") THEN SeqToSet(schema.required)
                                                          ELSE {}
                IN Bind(PropertiesToShape(properties, required, spec, depth + 1,
                                          visited, stack + 1, EmptyObject),
                        LAMBDA shape : IF ~shape.ok THEN shape
                                                    ELSE Ok(ZObject(shape.value)))
  ELSE IF TypeOf(schema) = "string"
    THEN IF Has(schema, "enum") THEN Ok(ZEnum(SeqToSet(schema.enum))) ELSE Ok(ZString)
  ELSE IF TypeOf(schema) \in {"number", "integer"} THEN Ok(ZNumber)
  ELSE IF TypeOf(schema) = "boolean" THEN Ok(ZBoolean)
  ELSE Ok(ZString)

\* The loop over Object.entries(properties) (index.ts:290-298).
PropertiesToShape(properties, required, spec, depth, visited, stack, shape) ==
  IF properties = <<>> THEN Ok(shape)
  ELSE LET propName == properties[1].key IN
       Bind(SchemaToZod(properties[1].value, spec, depth, visited, stack),
            LAMBDA zodProp :
              IF ~zodProp.ok THEN zodProp
              ELSE PropertiesToShape(
                     Tail(properties), required, spec, depth, visited, stack,
                     Put(shape, propName,
                         IF propName \in required THEN zodProp.value
                                                  ELSE Optional(zodProp.value))))

----------------------------------------------------------------------------
\* The operation parser (index.ts:60, 346-540).

\* const HTTP_METHODS
HTTP_METHODS == <<"GET", "POST", "PUT", "PATCH", "DELETE">>

\* method.toLowerCase()
ToLowerCase(method) ==
  CASE method = "GET" -> "get" [] method = "POST" -> "post" [] method = "PUT" -> "put"
    [] method = "PATCH" -> "patch" [] method = "DELETE" -> "delete"

\* A path template is the sequence of its pieces: "/", "{", "}" and the
\* words between them; a string is the concatenation of its pieces.
RECURSIVE Concat(_)
Concat(pieces) == IF pieces = <<>> THEN "" ELSE pieces[1] \o Concat(Tail(pieces))

\* buildParametersSchema(parameters, operationId, spec): the loop over the
\* parameters, from the accumulated shape and sets.
RECURSIVE BuildParametersFrom(_, _, _)
BuildParametersFrom(parameters, spec, acc) ==
  IF parameters = <<>> THEN Ok(acc)
  ELSE LET param == parameters[1] IN
       IF param.in \notin {"path", "query"}
         THEN BuildParametersFrom(Tail(parameters), spec, acc)
         ELSE Bind(IF Has(param, "schema") THEN SchemaToZod(param.schema, spec, 0, {}, 0)
                                           ELSE Ok(ZString),
                   LAMBDA translated :
                     IF ~translated.ok THEN translated
                     ELSE LET paramSchema == IF Has(param, "required") /\ param.required
                                               THEN translated.value
                                               ELSE Optional(translated.value)
                          IN Bind([shape |-> Put(acc.shape, param.name, paramSchema),
                                   pathParams |-> IF param.in = "path"
                                                    THEN acc.pathParams \cup {param.name}
                                                    ELSE acc.pathParams,
                                   queryParams |-> IF param.in = "query"
                                                     THEN acc.queryParams \cup {param.name}
                                                     ELSE acc.queryParams],
                                  LAMBDA next :
                                    BuildParametersFrom(Tail(parameters), spec, next)))

BuildParametersSchema(parameters, spec) ==
  BuildParametersFrom(parameters, spec,
                      [shape |-> EmptyObject, pathParams |-> {}, queryParams |-> {}])

IsBinary(schema) == TypeOf(schema) = "string" /\ Has(schema, "format") /\ schema.format = "binary"

\* A loop that translates the body properties from depth 0.
RECURSIVE BuildBodyFrom_DepthZero(_, _, _, _)
BuildBodyFrom_DepthZero(properties, required, spec, acc) ==
  IF properties = <<>> THEN Ok(acc)
  ELSE LET propName == properties[1].key
           propSchema == properties[1].value
       IN IF IsBinary(propSchema) THEN Unsupported("File uploads are not supported")
          ELSE Bind(SchemaToZod(propSchema, spec, 0, {}, 0), LAMBDA zodProp :
                 IF ~zodProp.ok THEN zodProp
                 ELSE Bind([shape |-> Put(acc.shape, propName,
                                          IF propName \in required
                                            THEN zodProp.value
                                            ELSE Optional(zodProp.value)),
                            bodyParams |-> acc.bodyParams \cup {propName}],
                           LAMBDA next :
                             BuildBodyFrom_DepthZero(Tail(properties), required, spec,
                                                     next)))

\* The loop over the properties of the request body (index.ts:435-460).
RECURSIVE BuildBodyFrom(_, _, _, _)
BuildBodyFrom(properties, required, spec, acc) ==
  IF properties = <<>> THEN Ok(acc)
  ELSE LET propName == properties[1].key
           propSchema == properties[1].value
       IN IF IsBinary(propSchema) THEN Unsupported("File uploads are not supported")
          ELSE Bind(SchemaToZod(propSchema, spec, 1, {}, 0), LAMBDA zodProp :
                 IF ~zodProp.ok THEN zodProp
                 ELSE Bind([shape |-> Put(acc.shape, propName,
                                          IF propName \in required
                                            THEN zodProp.value
                                            ELSE Optional(zodProp.value)),
                            bodyParams |-> acc.bodyParams \cup {propName}],
                           LAMBDA next :
                             BuildBodyFrom(Tail(properties), required, spec, next)))

\* buildRequestBodySchema(operation, operationId, spec)
BuildRequestBodySchema(operation, spec) ==
  LET empty == [shape |-> EmptyObject, bodyParams |-> {}]
      content == Chain(Field(operation, "requestBody"), "content")
  IN IF ~content.defined \/ ~HasKey(content.value, "application/json") THEN Ok(empty)
     ELSE LET jsonContent == Get(content.value, "application/json") IN
          IF ~Has(jsonContent, "schema") THEN Ok(empty)
          ELSE LET schema == jsonContent.schema IN
               IF IsBinary(schema) THEN Unsupported("File uploads are not supported")
               ELSE Bind(IF Has(schema, "ref") THEN ResolveRef(schema.ref, spec, {})
                                               ELSE Ok(schema),
                         LAMBDA resolved :
                           IF ~resolved.ok THEN resolved
                           ELSE IF TypeOf(resolved.value) = "object"
                                   \/ Has(resolved.value, "properties")
                             THEN BuildBodyFrom(
                                    IF Has(resolved.value, "properties")
                                      THEN resolved.value.properties ELSE EmptyObject,
                                    IF Has(resolved.value, "required")
                                      THEN SeqToSet(resolved.value.required) ELSE {},
                                    spec, empty)
                             ELSE Ok(empty))

\* Mutant: the braces of the placeholders stay in the name.
CleanPath_KeepsBraces(path) ==
  LET underscored == [i \in DOMAIN path |-> IF path[i] = "/" THEN "_" ELSE path[i]]
  IN IF underscored # <<>> /\ underscored[1] = "_"
       THEN Concat(SubSeq(underscored, 2, Len(underscored)))
       ELSE Concat(underscored)

\* path.replace(/[{}]/g, '').replace(/\//g, '_').replace(/^_/, '')
CleanPath(path) ==
  LET noBraces == SelectSeq(path, LAMBDA p : p \notin {"{", "}"})
      underscored == [i \in DOMAIN noBraces |-> IF noBraces[i] = "/" THEN "_" ELSE noBraces[i]]
  IN IF underscored # <<>> /\ underscored[1] = "_"
       THEN Concat(SubSeq(underscored, 2, Len(underscored)))
       ELSE Concat(underscored)

\* generateToolName(operation, method, path)
GenerateToolName(operation, method, path) ==
  IF Has(operation, "operationId") /\ Truthy(operation.operationId)
    THEN operation.operationId
    ELSE ToLowerCase(method) \o "_" \o CleanPath(path)

\* One operation of a path item: the body of the inner loop (index.ts:505-535).
ParseOperation(spec, path, pathItem, method) ==
  LET operation == pathItem[ToLowerCase(method)]
      operationId == GenerateToolName(operation, method, path)
      allParameters == (IF Has(pathItem, "parameters") THEN pathItem.parameters ELSE <<>>)
                       \o (IF Has(operation, "parameters") THEN operation.parameters ELSE <<>>)
  IN Bind(BuildParametersSchema(allParameters, spec), LAMBDA parametersResult :
     Bind(BuildRequestBodySchema(operation, spec), LAMBDA bodyResult :
     Bind(ExtractOperationAuthConfig(spec, operation), LAMBDA authConfig :
     IF ~parametersResult.ok THEN parametersResult
     ELSE IF ~bodyResult.ok THEN bodyResult
     ELSE IF ~authConfig.ok THEN authConfig
     ELSE Ok([name |-> operationId,
              description |-> IF Has(operation, "summary") /\ Truthy(operation.summary)
                                THEN operation.summary
                                ELSE IF Has(operation, "description")
                                        /\ Truthy(operation.description)
                                  THEN operation.description
                                  ELSE method \o " " \o Concat(path),
              parameters |-> ZObject(Spread(parametersResult.value.shape,
                                            bodyResult.value.shape)),
              httpMethod |-> method,
              path |-> path,
              authConfig |-> authConfig.value,
              parameterMetadata |->
                [pathParams |-> parametersResult.value.pathParams,
                 queryParams |-> parametersResult.value.queryParams,
                 bodyParams |-> bodyResult.value.bodyParams]]))))

\* A loop over the methods that leaves out an operation it cannot translate.
RECURSIVE ParseMethods_SkipsUnsupported(_, _, _, _, _)
ParseMethods_SkipsUnsupported(spec, path, pathItem, methods, tools) ==
  IF methods = <<>> THEN Ok(tools)
  ELSE IF ~Has(pathItem, ToLowerCase(methods[1]))
    THEN ParseMethods_SkipsUnsupported(spec, path, pathItem, Tail(methods), tools)
    ELSE Bind(ParseOperation(spec, path, pathItem, methods[1]), LAMBDA tool :
           ParseMethods_SkipsUnsupported(
             spec, path, pathItem, Tail(methods),
             IF tool.ok THEN Append(tools, tool.value) ELSE tools))

\* The two loops of parseOperations: over the methods of a path item, and
\* over the entries of spec.paths; tools is the list pushed so far.
RECURSIVE ParseMethods(_, _, _, _, _)
ParseMethods(spec, path, pathItem, methods, tools) ==
  IF methods = <<>> THEN Ok(tools)
  ELSE IF ~Has(pathItem, ToLowerCase(methods[1]))
    THEN ParseMethods(spec, path, pathItem, Tail(methods), tools)
    ELSE Bind(ParseOperation(spec, path, pathItem, methods[1]), LAMBDA tool :
           IF ~tool.ok THEN tool
           ELSE ParseMethods(spec, path, pathItem, Tail(methods),
                             Append(tools, tool.value)))

RECURSIVE ParsePaths(_, _, _)
ParsePaths(spec, entries, tools) ==
  IF entries = <<>> THEN Ok(tools)
  ELSE Bind(ParseMethods(spec, entries[1].key, entries[1].value, HTTP_METHODS, tools),
            LAMBDA more :
              IF ~more.ok THEN more ELSE ParsePaths(spec, Tail(entries), more.value))

\* parseOperations(spec); Object.entries of a missing paths object throws.
ParseOperations(spec) ==
  IF ~Has(spec, "paths")
    THEN Err("TypeError", "Cannot convert undefined or null to object")
    ELSE ParsePaths(spec, spec.paths, <<>>)

----------------------------------------------------------------------------
\* The OpenAPI documents a session is given (types.ts: OpenAPISpec, PathItem,
\* Operation, Parameter, RequestBody).

Server == [url |-> <<"https://api.test">>]
ServerTrailingSlash == [url |-> <<"https://api.test", "/">>]
ServerRelative == [url |-> <<"/v1">>]

UsersPath == <<"/", "users">>
UserPath == <<"/", "users", "/", "{", "id", "}">>

IdPath == [name |-> "id", in |-> "path", required |-> TRUE, schema |-> [type |-> "string"]]
IdQuery == [name |-> "id", in |-> "query", schema |-> [type |-> "string"]]
LimitQuery == [name |-> "limit", in |-> "query", schema |-> [type |-> "integer"]]
TagsQuery == [name |-> "tags", in |-> "query",
              schema |-> [type |-> "array", items |-> [type |-> "string"]]]
FilterQuery == [name |-> "filter", in |-> "query",
                schema |-> [anyOf |-> <<[type |-> "string"], [type |-> "integer"]>>]]
TraceHeader == [name |-> "X-Trace", in |-> "header", schema |-> [type |-> "string"]]

JsonBody(schema) ==
  [requestBody |-> [content |-> <<Entry("application/json", [schema |-> schema])>>]]
NameBody ==
  JsonBody([type |-> "object", required |-> <<"name">>,
            properties |-> <<Entry("name", [type |-> "string"])>>])
IdNameBody ==
  JsonBody([type |-> "object", required |-> <<"name">>,
            properties |-> <<Entry("id", [type |-> "string"]),
                             Entry("name", [type |-> "string"]),
                             Entry("limit", [type |-> "integer"])>>])
NoBody == <<>>

\* One operation under one path: the parameters of the path item, the
\* parameters and the request body of the operation.
PlacementDoc(path, method, pathLevel, opLevel, body) ==
  LET operation == [parameters |-> opLevel] @@ body
      pathItem == IF pathLevel = <<>> THEN (method :> operation)
                  ELSE (method :> operation) @@ [parameters |-> pathLevel]
  IN [servers |-> <<Server>>, paths |-> <<Entry(path, pathItem)>>]

\* The parameters of the path item, those of the operation, and its body.
Placements ==
  {<<<<>>, <<LimitQuery>>, NoBody>>,
   <<<<>>, <<IdQuery>>, NoBody>>,
   <<<<>>, <<TraceHeader, TagsQuery>>, IdNameBody>>,
   <<<<IdPath>>, <<LimitQuery>>, NoBody>>,
   <<<<IdPath>>, <<IdQuery>>, NoBody>>,
   <<<<IdPath>>, <<LimitQuery>>, NameBody>>,
   <<<<IdPath>>, <<LimitQuery>>, IdNameBody>>}

PlacementDocs ==
  {PlacementDoc(path, method, p[1], p[2], p[3]) :
     path \in {UsersPath, UserPath}, method \in {"get", "post"}, p \in Placements}

\* Two operations under /users: listUsers declares no security, createUser
\* declares opSecurity; the document declares security and its schemes.
Requirement(name) == <<Entry(name, <<>>)>>

SecurityDoc(security, opSecurity, schemes) ==
  LET listUsers == [operationId |-> "listUsers", parameters |-> <<LimitQuery>>]
      createUser == ([operationId |-> "createUser"] @@ NameBody)
                    @@ (IF opSecurity.defined THEN [security |-> opSecurity.value] ELSE <<>>)
  IN ([servers |-> <<Server>>,
       paths |-> <<Entry(UsersPath, [get |-> listUsers, post |-> createUser])>>]
      @@ (IF security.defined THEN [security |-> security.value] ELSE <<>>))
      @@ (IF schemes.defined THEN [components |-> [securitySchemes |-> schemes.value]]
                             ELSE <<>>)

SchemesA == {SchemeApiKeyHeader, SchemeApiKeyQuery, SchemeApiKeyCookie, SchemeBearer,
             SchemeBasic, SchemeOAuthCode, SchemeOAuthImplicit, SchemeOpenId}
SecuritySchemes ==
  {None, Some(<<Entry("B", SchemeBearer)>>)}
  \cup {Some(<<Entry("A", a), Entry("B", SchemeBearer)>>) : a \in SchemesA}

\* Every declaration of scheme A where the document requires A, and one of
\* them where it requires nothing.
SecurityDocs ==
  {SecurityDoc(Some(<<Requirement("A")>>), opSecurity, schemes) :
     opSecurity \in {None, Some(<<>>), Some(<<Requirement("B")>>)},
     schemes \in SecuritySchemes}
  \cup
  {SecurityDoc(security, opSecurity, schemes) :
     security \in {None, Some(<<>>)},
     opSecurity \in {None, Some(<<>>), Some(<<Requirement("B")>>)},
     schemes \in {None, Some(<<Entry("B", SchemeBearer)>>),
                  Some(<<Entry("A", SchemeApiKeyHeader), Entry("B", SchemeBearer)>>)}}

\* Documents whose servers or paths are not what the session expects.
OtherDocs ==
  {[paths |-> <<Entry(UsersPath, [get |-> [operationId |-> "listUsers"]])>>],
   [servers |-> <<>>, paths |-> <<>>],
   [servers |-> <<ServerTrailingSlash>>,
    paths |-> <<Entry(UsersPath, [get |-> [parameters |-> <<LimitQuery>>]])>>],
   [servers |-> <<ServerRelative>>,
    paths |-> <<Entry(UsersPath, [get |-> [parameters |-> <<LimitQuery>>]])>>],
   [servers |-> <<Server>>,
    paths |-> <<Entry(UsersPath, [get |-> [parameters |-> <<FilterQuery>>]])>>],
   [servers |-> <<Server>>, paths |-> <<>>],
   [servers |-> <<Server>>]}

\* The documents of the behavioural scenarios: getUser with a required
\* numeric path parameter, createUser with a required and an optional body
\* property, and operations of every other method that have a query
\* parameter and a body, whose properties are all optional in LimitBody.
IdIntPath == [name |-> "id", in |-> "path", required |-> TRUE, schema |-> [type |-> "integer"]]
NameEmailBody ==
  JsonBody([type |-> "object", required |-> <<"name">>,
            properties |-> <<Entry("name", [type |-> "string"]),
                             Entry("email", [type |-> "string"])>>])
LimitBody ==
  JsonBody([type |-> "object", properties |-> <<Entry("limit", [type |-> "integer"])>>])
GetUserDoc ==
  [servers |-> <<Server>>,
   paths |-> <<Entry(UserPath, [get |-> [operationId |-> "getUser",
                                         parameters |-> <<IdIntPath>>]])>>]
CreateUserDoc ==
  [servers |-> <<Server>>,
   paths |-> <<Entry(UsersPath, [post |-> [operationId |-> "createUser"] @@ NameEmailBody])>>]
MethodDocs ==
  {PlacementDoc(UsersPath, method, <<>>, <<TagsQuery>>, body) :
     method \in {"put", "patch", "delete"}, body \in {NameEmailBody, LimitBody}}
ScenarioDocs == {GetUserDoc, CreateUserDoc} \cup MethodDocs

\* The component schemas of the documents that exercise the translator:
\* Alias refers to Name; Loop and Pool refer to each other and Self to
\* itself; Node returns to itself through a property and List through its
\* items; Item is an object and Upload a file.
Components ==
  <<Entry("Name", [type |-> "string"]),
    Entry("Alias", [ref |-> Ref("Name")]),
    Entry("Loop", [ref |-> Ref("Pool")]),
    Entry("Pool", [ref |-> Ref("Loop")]),
    Entry("Self", [ref |-> Ref("Self")]),
    Entry("Node", [type |-> "object",
                   properties |-> <<Entry("next", [ref |-> Ref("Node")])>>]),
    Entry("List", [type |-> "array", items |-> [ref |-> Ref("List")]]),
    Entry("Item", [type |-> "object",
                   properties |-> <<Entry("sku", [type |-> "string"])>>]),
    Entry("Upload", [type |-> "string", format |-> "binary"])>>

\* One operation, POST /users, with the given parameters and request body.
SchemaDoc(parameters, body) ==
  [servers |-> <<Server>>,
   paths |-> <<Entry(UsersPath,
                     [post |-> [operationId |-> "search", parameters |-> parameters]
                               @@ body])>>,
   components |-> [schemas |-> Components]]
QueryOf(schema) == [name |-> "filter", in |-> "query", schema |-> schema]
BodyOf(properties) == JsonBody([type |-> "object", properties |-> properties])
\* The schema as the schema of a query parameter, and as that of a property
\* of the request body.
InParameter(schema) == SchemaDoc(<<QueryOf(schema)>>, NoBody)
InBodyProperty(schema) == SchemaDoc(<<>>, BodyOf(<<Entry("filter", schema)>>))
AsBody(schema) == SchemaDoc(<<>>, JsonBody(schema))

\* References that resolve, references that run in a cycle, and references
\* of another form or to no component.
GoodRefs == {[ref |-> Ref("Name")], [ref |-> Ref("Alias")]}
CyclicChains == {[ref |-> Ref("Loop")], [ref |-> Ref("Self")]}
CyclicSchemas == CyclicChains \cup {[ref |-> Ref("Node")], [ref |-> Ref("List")]}
BadRefs == {[ref |-> Ref("Missing")], [ref |-> <<"#/definitions/", "Name">>]}

ResolvableDocs ==
  {InParameter(s) : s \in GoodRefs} \cup {InBodyProperty(s) : s \in GoodRefs}
  \cup {AsBody(s) : s \in GoodRefs}
UnresolvableDocs ==
  {InParameter(s) : s \in CyclicSchemas \cup BadRefs}
  \cup {InBodyProperty(s) : s \in CyclicSchemas \cup BadRefs}
  \cup {AsBody(s) : s \in CyclicChains \cup BadRefs}

\* Arrays: of primitives, and of objects -- the item schema says object,
\* has properties without a type, or is a reference to an object.
StringArray == [type |-> "array", items |-> [type |-> "string"]]
ObjectItems ==
  {[type |-> "object", properties |-> <<Entry("sku", [type |-> "string"])>>],
   [properties |-> <<Entry("sku", [type |-> "string"])>>],
   [ref |-> Ref("Item")]}
ObjectArrays == {[type |-> "array", items |-> item] : item \in ObjectItems}
\* An object property of the request body that holds the schema: the schema
\* is two levels below the body root.
Nested(schema) == [type |-> "object", properties |-> <<Entry("inner", schema)>>]

PrimitiveArrayDocs ==
  {InParameter(StringArray), InBodyProperty(StringArray),
   InBodyProperty(Nested(StringArray))}
ObjectArrayDocs ==
  {InParameter(a) : a \in ObjectArrays} \cup {InBodyProperty(a) : a \in ObjectArrays}
  \cup {InBodyProperty(Nested(a)) : a \in ObjectArrays}

\* A file upload: as the schema of a parameter, the body root, a body
\* property, a property of a body property, an array item, and behind a $ref.
Binary == [type |-> "string", format |-> "binary"]
BinaryArray == [type |-> "array", items |-> Binary]
BinaryRef == [ref |-> Ref("Upload")]
BinaryDocs ==
  {InParameter(s) : s \in {Binary, BinaryArray, BinaryRef}}
  \cup {InBodyProperty(s) : s \in {Binary, Nested(Binary), BinaryArray, BinaryRef}}
  \cup {AsBody(s) : s \in {Binary, BinaryRef}}

\* Request bodies with an object property: Address has primitive properties
\* only, so a body property that is an Address (or refers to Item) is one
\* level of object nesting below the body root, and a body property holding
\* one as its own property is two levels.
Address == [type |-> "object", required |-> <<"city">>,
            properties |-> <<Entry("city", [type |-> "string"]),
                             Entry("tags", StringArray)>>]
OneLevelBodyDocs == {InBodyProperty(Address), InBodyProperty([ref |-> Ref("Item")])}
TwoLevelBodyDocs ==
  {InBodyProperty(Nested(Address)), InBodyProperty(Nested([ref |-> Ref("Item")])),
   InBodyProperty(Nested([properties |-> <<Entry("city", [type |-> "string"])>>]))}

\* Documents with a supported and an unsupported operation: under one path
\* or under two, the unsupported one walked last or first.
Supported == [operationId |-> "listUsers", parameters |-> <<LimitQuery>>]
NotSupported == [operationId |-> "findUsers", parameters |-> <<FilterQuery>>]
MixedDocs ==
  {[servers |-> <<Server>>, paths |-> paths] :
     paths \in {<<Entry(UsersPath, [get |-> Supported, post |-> NotSupported])>>,
               <<Entry(UsersPath, [get |-> NotSupported, post |-> Supported])>>,
               <<Entry(UsersPath, [get |-> Supported]),
                 Entry(UserPath, [get |-> NotSupported])>>,
               <<Entry(UsersPath, [get |-> Supported]),
                 Entry(UserPath, [get |-> Supported, post |-> NameBody,
                                  put |-> JsonBody(Binary)])>>}}

\* Documents with two operations: with distinct operationIds, without
\* operationIds, with one operationId twice, with an operationId that is the
\* name synthesized for the other operation, and with two paths that differ
\* in the braces only.
\* A path item is a record, which has no order of its own: keys, where a
\* document gives it, is the order in which the document writes the
\* operations of the path item; without it they are written GET first.
SameNameDocs ==
  {[servers |-> <<Server>>, paths |-> paths] :
     paths \in {<<Entry(UsersPath, [get |-> [operationId |-> "listUsers"],
                                    post |-> [operationId |-> "listUsers"]])>>,
               <<Entry(UsersPath, [get |-> [parameters |-> <<>>],
                                   post |-> [operationId |-> "get_users"]])>>,
               <<Entry(UserPath, [get |-> [parameters |-> <<IdPath>>]]),
                 Entry(<<"/", "users", "/", "id">>, [get |-> [parameters |-> <<>>]])>>,
               <<Entry(UsersPath, [keys |-> <<"post", "get">>,
                                   post |-> [operationId |-> "listUsers"],
                                   get |-> [operationId |-> "listUsers"]])>>}}
DistinctNameDocs ==
  {[servers |-> <<Server>>, paths |-> paths] :
     paths \in {<<Entry(UsersPath, [get |-> [parameters |-> <<>>],
                                   post |-> [parameters |-> <<>>]])>>,
               <<Entry(UsersPath, [get |-> [parameters |-> <<>>]]),
                 Entry(UserPath, [get |-> [parameters |-> <<IdPath>>]])>>}}
NameDocs == SameNameDocs \cup DistinctNameDocs

SchemaDocs ==
  ResolvableDocs \cup UnresolvableDocs \cup PrimitiveArrayDocs \cup ObjectArrayDocs
  \cup BinaryDocs \cup OneLevelBodyDocs \cup TwoLevelBodyDocs \cup MixedDocs

Docs ==
  PlacementDocs \cup SecurityDocs \cup OtherDocs \cup ScenarioDocs \cup SchemaDocs
  \cup NameDocs

----------------------------------------------------------------------------
\* The values a caller passes to a tool, and zod's parse of them.

Str(s) == [str |-> s]
Num(n) == [num |-> n]
Bool(b) == [bool |-> b]
Arr(s) == [arr |-> s]
Obj(o) == [obj |-> o]
Undef == [undef |-> TRUE]

\* String(value)
RECURSIVE String(_)
RECURSIVE Join(_)
String(v) ==
  IF Has(v, "str") THEN v.str
  ELSE IF Has(v, "num") THEN ToString(v.num)
  ELSE IF Has(v, "bool") THEN (IF v.bool THEN "true" ELSE "false")
  ELSE IF Has(v, "arr") THEN Join(v.arr)
  ELSE IF Has(v, "obj") THEN "[object Object]"
  ELSE "undefined"
\* Array.prototype.join(","), which String applies to an array
Join(s) ==
  IF s = <<>> THEN ""
  ELSE IF Len(s) = 1 THEN String(s[1])
  ELSE String(s[1]) \o "," \o Join(Tail(s))

\* encodeURIComponent(s), on the strings the callers pass
EncodeURIComponent(s) ==
  CASE s = "a b" -> "a%20b"
    [] s = "a/b" -> "a%2Fb"
    [] s = "t1,t2" -> "t1%2Ct2"
    [] OTHER -> s

ZodError == Err("ZodError", "validation failed")

\* schema.parse(value) of zod: the parsed value, or a ZodError.  An object
\* validator drops the keys its shape does not name, and keeps a key of its
\* shape when the input has it or its parsed value is defined.
RECURSIVE ZodParse(_, _)
RECURSIVE ParseShape(_, _, _)
RECURSIVE ParseElements(_, _)
ZodParse(z, v) ==
  IF Has(v, "undef") THEN (IF z.optional THEN Ok(v) ELSE ZodError)
  ELSE IF z.kind = "string" THEN (IF Has(v, "str") THEN Ok(v) ELSE ZodError)
  ELSE IF z.kind = "number" THEN (IF Has(v, "num") THEN Ok(v) ELSE ZodError)
  ELSE IF z.kind = "boolean" THEN (IF Has(v, "bool") THEN Ok(v) ELSE ZodError)
  ELSE IF z.kind = "enum"
    THEN (IF Has(v, "str") /\ v.str \in z.values THEN Ok(v) ELSE ZodError)
  ELSE IF z.kind = "array"
    THEN (IF Has(v, "arr") /\ ParseElements(z.element, v.arr) THEN Ok(v) ELSE ZodError)
  ELSE IF Has(v, "obj")
    THEN Bind(ParseShape(z.shape, v.obj, EmptyObject), LAMBDA parsed :
           IF parsed.ok THEN Ok(Obj(parsed.value)) ELSE parsed)
    ELSE ZodError

ParseElements(element, s) ==
  \A i \in DOMAIN s : ZodParse(element, s[i]).ok

ParseShape(shape, input, output) ==
  IF shape = <<>> THEN Ok(output)
  ELSE LET key == shape[1].key IN
       Bind(ZodParse(shape[1].value, IF HasKey(input, key) THEN Get(input, key) ELSE Undef),
            LAMBDA parsed :
              IF ~parsed.ok THEN parsed
              ELSE ParseShape(Tail(shape), input,
                              IF HasKey(input, key) \/ ~Has(parsed.value, "undef")
                                THEN Put(output, key, parsed.value)
                                ELSE output))

----------------------------------------------------------------------------
\* Rendering the credential (auth-manager.ts:41-99).  authConfig is the
\* tool's configuration, or NoOverride when the argument is left out.

\* requiresAuth(authConfig?)
RequiresAuth(authConfig, global) == Effective(authConfig, global).type # "none"

\* Mutant: the test of the credential is left out, and the scheme is rendered
\* around the missing value.
GetAuthHeaders_NoTokenTest(authConfig, global, token) ==
  LET config == Effective(authConfig, global) IN
  IF config.type \in {"oauth2", "bearer"}
    THEN <<Entry("Authorization", "Bearer " \o token)>>
  ELSE IF config.type = "basic" THEN <<Entry("Authorization", "Basic " \o token)>>
  ELSE IF config.type = "apiKey" /\ config.apiKeyIn = "header" /\ Truthy(config.apiKeyHeader)
    THEN <<Entry(config.apiKeyHeader, token)>>
  ELSE EmptyObject

\* getAuthHeaders(authConfig?)
GetAuthHeaders(authConfig, global, token) ==
  LET config == Effective(authConfig, global) IN
  IF ~Truthy(token) THEN EmptyObject
  ELSE IF config.type \in {"oauth2", "bearer"}
    THEN <<Entry("Authorization", "Bearer " \o token)>>
  ELSE IF config.type = "basic" THEN <<Entry("Authorization", "Basic " \o token)>>
  ELSE IF config.type = "apiKey" /\ config.apiKeyIn = "header" /\ Truthy(config.apiKeyHeader)
    THEN <<Entry(config.apiKeyHeader, token)>>
  ELSE EmptyObject

\* The key goes into the query whatever its placement.
GetAuthQueryParams_AnyPlacement(authConfig, global, token) ==
  LET config == Effective(authConfig, global) IN
  IF config.type = "apiKey" /\ Truthy(config.apiKeyHeader) /\ Truthy(token)
    THEN <<Entry(config.apiKeyHeader, token)>>
    ELSE EmptyObject

\* getAuthQueryParams(authConfig?)
GetAuthQueryParams(authConfig, global, token) ==
  LET config == Effective(authConfig, global) IN
  IF config.type = "apiKey" /\ config.apiKeyIn = "query" /\ Truthy(config.apiKeyHeader)
     /\ Truthy(token)
    THEN <<Entry(config.apiKeyHeader, token)>>
    ELSE EmptyObject

----------------------------------------------------------------------------
\* The tool executor (tool-executor.ts).

\* extractBaseUrl(spec): servers[0].url without its trailing slash
ExtractBaseUrl(spec) ==
  IF Has(spec, "servers") /\ Len(spec.servers) > 0
    THEN LET url == spec.servers[1].url IN
         Ok(IF url # <<>> /\ url[Len(url)] = "/" THEN SubSeq(url, 1, Len(url) - 1) ELSE url)
    ELSE Err("SpecLoadError", "Failed to load OpenAPI spec: No server URL defined in OpenAPI spec")

\* /\{(\w+)\}/ matches at piece i of the path
PlaceholderAt(path, i) ==
  /\ i + 2 <= Len(path)
  /\ path[i] = "{" /\ path[i + 1] \notin {"/", "{", "}"} /\ path[i + 2] = "}"

\* The loop of buildUrl: every placeholder whose name is a key of params with
\* a defined value is replaced by the encoded value.
RECURSIVE ReplacePathParams(_, _)
ReplacePathParams(path, params) ==
  IF path = <<>> THEN <<>>
  ELSE IF PlaceholderAt(path, 1) /\ HasKey(params, path[2])
          /\ ~Has(Get(params, path[2]), "undef")
    THEN <<EncodeURIComponent(String(Get(params, path[2])))>>
         \o ReplacePathParams(SubSeq(path, 4, Len(path)), params)
    ELSE <<path[1]>> \o ReplacePathParams(Tail(path), params)

\* buildUrl(baseUrl, path, params)
BuildUrl(baseUrl, path, params) == baseUrl \o ReplacePathParams(path, params)

\* typeof value is 'string', 'number' or 'boolean'
IsPrimitive(value) == Has(value, "str") \/ Has(value, "num") \/ Has(value, "bool")

\* separateParams(params, metadata?): the loop over Object.entries(params)
RECURSIVE SeparateFrom(_, _, _)
SeparateFrom(params, metadata, acc) ==
  IF params = <<>> THEN acc
  ELSE LET key == params[1].key
           value == params[1].value
           bucket ==
             IF metadata.defined
               THEN IF key \in metadata.value.pathParams THEN "pathParams"
                    ELSE IF key \in metadata.value.queryParams THEN "queryParams"
                    ELSE "bodyParams"
               ELSE IF IsPrimitive(value) THEN "queryParams" ELSE "bodyParams"
       IN Bind([acc EXCEPT ![bucket] = Put(acc[bucket], key, value)],
               LAMBDA next : SeparateFrom(Tail(params), metadata, next))

SeparateParams(params, metadata) ==
  SeparateFrom(params, metadata,
               [pathParams |-> EmptyObject, queryParams |-> EmptyObject,
                bodyParams |-> EmptyObject])

\* new URL(url) accepts an absolute URL only; toString() escapes the braces
\* of a placeholder left in the path.
IsAbsoluteUrl(url) == url # <<>> /\ url[1] = "https://api.test"
EscapePiece(p) == IF p = "{" THEN "%7B" ELSE IF p = "}" THEN "%7D" ELSE p
RECURSIVE QueryString(_)
QueryString(entries) ==
  IF entries = <<>> THEN ""
  ELSE entries[1].key \o "=" \o entries[1].value
       \o (IF Len(entries) > 1 THEN "&" ELSE "") \o QueryString(Tail(entries))
UrlToString(url, query) ==
  Concat([i \in DOMAIN url |-> EscapePiece(url[i])])
  \o (IF query = <<>> THEN "" ELSE "?" \o QueryString(query))

\* The loop that sets the query entries (tool-executor.ts:54-58).
RECURSIVE SetSearchParams(_, _)
SetSearchParams(query, entries) ==
  IF entries = <<>> THEN query
  ELSE SetSearchParams(
         IF Has(entries[1].value, "undef") THEN query
           ELSE Put(query, entries[1].key, String(entries[1].value)),
         Tail(entries))

\* JSON.stringify(object), as the object the text stands for: a key whose
\* value is undefined is left out.
JsonStringify(object) == SelectSeq(object, LAMBDA e : ~Has(e.value, "undef"))

\* The request the executor hands to fetch (tool-executor.ts:44-92), or the
\* error thrown on the way.
BuildRequest(tool, baseUrl, global, token, validatedParams) ==
  Bind(BuildUrl(baseUrl, tool.path, validatedParams), LAMBDA url :
  Bind(SeparateParams(validatedParams, Some(tool.parameterMetadata)), LAMBDA separated :
  LET toolRequiresAuth == RequiresAuth(tool.authConfig, global)
      query == Spread(SetSearchParams(EmptyObject, separated.queryParams),
                      IF toolRequiresAuth
                        THEN GetAuthQueryParams(tool.authConfig, global, token)
                        ELSE EmptyObject)
      authHeaders == IF toolRequiresAuth THEN GetAuthHeaders(tool.authConfig, global, token)
                                         ELSE EmptyObject
      hasBody == tool.httpMethod \in {"POST", "PUT", "PATCH"}
                 /\ separated.bodyParams # <<>>
  IN IF ~IsAbsoluteUrl(url) THEN Err("TypeError", "Invalid URL")
     ELSE Ok([method |-> tool.httpMethod,
              url |-> url,
              query |-> query,
              headers |-> IF hasBody
                            THEN Put(authHeaders, "Content-Type", "application/json")
                            ELSE authHeaders,
              body |-> IF hasBody THEN Some(JsonStringify(separated.bodyParams))
                                  ELSE None])))

\* What the network answers: fetch rejects, or a response arrives.
NetworkError == [kind |-> "networkError"]
Response(status, statusText, contentType, text, parses) ==
  [kind |-> "response", status |-> status, statusText |-> statusText,
   contentType |-> contentType, text |-> text, parses |-> parses]
Answers200 ==
  {Response(200, "OK", "application/json", "[]", TRUE),
   Response(200, "OK", "application/json", "<html>", FALSE)}
AnswersFailed ==
  {Response(401, "Unauthorized", "application/json", "{}", TRUE),
   Response(404, "Not Found", "text/plain", "no such user", TRUE)}
\* The other statuses the executor tells apart, a status it has no hint for,
\* and responses that announce JSON and have an empty body.
AnswersMore ==
  {Response(204, "No Content", "application/json", "", FALSE),
   Response(400, "Bad Request", "application/json", "{}", TRUE),
   Response(401, "Unauthorized", "application/json", "", FALSE),
   Response(403, "Forbidden", "text/plain", "forbidden", TRUE),
   Response(429, "Too Many Requests", "application/json", "{}", TRUE),
   Response(503, "Service Unavailable", "text/plain", "later", TRUE)}
NetworkAnswers == {NetworkError} \cup Answers200 \cup AnswersFailed \cup AnswersMore

\* The hint appended for common statuses (tool-executor.ts:117-127).
StatusHint(status) ==
  IF status = 401 THEN "\nAuthentication failed. Check your API key/token."
  ELSE IF status = 403 THEN "\nAccess forbidden. Verify your permissions."
  ELSE IF status = 404 THEN "\nResource not found."
  ELSE IF status = 429 THEN "\nRate limit exceeded. Try again later."
  ELSE IF status >= 500 THEN "\nServer error. The API service may be experiencing issues."
  ELSE ""

\* fetch and the handling of the response (tool-executor.ts:95-132): the
\* response data, or the error thrown.
HandleAnswer(tool, request, answer) ==
  IF answer.kind = "networkError" THEN Err("TypeError", "fetch failed")
  ELSE IF answer.contentType = "application/json" /\ ~answer.parses
    THEN Err("SyntaxError", "Unexpected token in JSON")
  ELSE IF answer.status \notin 200..299
    THEN Err("Error",
             "HTTP " \o ToString(answer.status) \o " " \o answer.statusText
             \o "\nURL: " \o tool.httpMethod \o " " \o UrlToString(request.url, request.query)
             \o "\nResponse: " \o answer.text
             \o StatusHint(answer.status))
  ELSE Ok(answer.text)

\* new ToolExecutionError(toolName, cause) (errors.ts:24-34)
ToolExecutionError(toolName, cause) ==
  [class |-> "ToolExecutionError",
   message |-> "Tool " \o toolName \o " failed: " \o cause.message,
   toolName |-> toolName, cause |-> cause]

NoError == [class |-> "none"]

\* Only a validation error is wrapped.
Catch_OnlyZod(tool, error) ==
  IF error.class = "ZodError"
    THEN ToolExecutionError(tool.name,
           [class |-> "Error", message |-> "Invalid parameters: " \o error.message])
    ELSE error

\* The catch clause of the executor (tool-executor.ts:133-147).
Catch(tool, error) ==
  IF error.class = "ZodError"
    THEN ToolExecutionError(tool.name,
           [class |-> "Error", message |-> "Invalid parameters: " \o error.message])
  ELSE IF error.class = "ToolExecutionError" THEN error
  ELSE ToolExecutionError(tool.name, error)

\* An executor that builds its request from the raw parameters.
ExecuteTool_Unvalidated(tool, baseUrl, global, token, params) ==
  Bind(BuildRequest(tool, baseUrl, global, token, params.obj), LAMBDA request :
    IF ~request.ok
      THEN [validated |-> Some(params.obj), request |-> None,
            result |-> "threw", error |-> Catch(tool, request.error)]
      ELSE [validated |-> Some(params.obj), request |-> Some(request.value),
            result |-> "pending", error |-> NoError])

\* tool.execute(params), the function createExecutor returns, up to its
\* await of fetch: what the call validated and sent, or what it threw.
ExecuteTool(tool, baseUrl, global, token, params) ==
  Bind(ZodParse(tool.parameters, params), LAMBDA validated :
    IF ~validated.ok
      THEN [validated |-> None, request |-> None, result |-> "threw",
            error |-> Catch(tool, validated.error)]
      ELSE Bind(BuildRequest(tool, baseUrl, global, token, validated.value.obj),
                LAMBDA request :
                  IF ~request.ok
                    THEN [validated |-> Some(validated.value.obj), request |-> None,
                          result |-> "threw", error |-> Catch(tool, request.error)]
                    ELSE [validated |-> Some(validated.value.obj),
                          request |-> Some(request.value),
                          result |-> "pending", error |-> NoError]))

----------------------------------------------------------------------------
\* A session: the document is loaded, parsed, and its tools are invoked.

\* How loadOpenAPISpec ends (index.ts:65-91): fetch is awaited outside any
\* try, so a transport failure leaves as fetch threw it.
LoadOutcomes == {"ok", "httpError", "unreadable", "malformed", "networkError"}
LoadError(outcome) ==
  CASE outcome = "httpError" ->
         Err("SpecLoadError", "Failed to load OpenAPI spec: HTTP 404: Not Found")
    [] outcome = "unreadable" ->
         Err("SpecLoadError", "Failed to load OpenAPI spec: Cannot read file")
    [] outcome = "malformed" ->
         Err("SpecLoadError", "Failed to load OpenAPI spec: Invalid JSON or YAML format")
    [] outcome = "networkError" -> Err("TypeError", "fetch failed")

Failed(operation, result) ==
  [phase |-> "failed", operation |-> operation, error |-> result.error]

\* The credential a consumer hands to setAccessToken.
Credentials == {"secret123"}

\* What callers pass to a tool.
ParamInputs ==
  {Obj(<<>>),
   Obj(<<Entry("limit", Num(5))>>),
   Obj(<<Entry("limit", Undef)>>),
   Obj(<<Entry("limit", Str("five"))>>),
   Obj(<<Entry("id", Str("7"))>>),
   Obj(<<Entry("id", Num(42))>>),
   Obj(<<Entry("name", Str("John"))>>),
   Obj(<<Entry("id", Str("a b")), Entry("name", Str("x"))>>),
   Obj(<<Entry("id", Str("7")), Entry("name", Str("x")), Entry("limit", Num(5)),
         Entry("tags", Arr(<<Str("t1"), Str("t2")>>)), Entry("extra", Bool(TRUE))>>)}

\* What callers pass to executeToolByName.
ToolNames == {"listUsers", "createUser", "get_users", "missing"}
NamedInputs == {Obj(<<>>)}

InitTools ==
  /\ NewAuthManager(NoneConfig)
  /\ doc = NoDoc /\ session = NoSession /\ lastCall = NoCall

\* The start of a session (cli.ts:58-103, lib.ts:41-55): loadOpenAPISpec,
\* extractBaseUrl, extractAuthConfig, parseOperations, new AuthManager,
\* createExecutableTools.  The first error thrown ends the start.
StartSession(d, loaded) ==
  /\ session = NoSession
  /\ IF loaded # "ok"
       THEN /\ session' = Failed("loadOpenAPISpec", LoadError(loaded))
            /\ UNCHANGED <<doc, globalAuthConfig>>
       ELSE /\ doc' = d
            /\ \E baseUrl \in {ExtractBaseUrl(d)} :
                 IF ~baseUrl.ok
                   THEN session' = Failed("extractBaseUrl", baseUrl)
                        /\ UNCHANGED globalAuthConfig
                   ELSE \E authConfig \in {ExtractAuthConfig(d)} :
                     IF ~authConfig.ok
                       THEN session' = Failed("extractAuthConfig", authConfig)
                            /\ UNCHANGED globalAuthConfig
                       ELSE \E toolDefs \in {ParseOperations(d)} :
                         IF ~toolDefs.ok
                           THEN session' = Failed("parseOperations", toolDefs)
                                /\ UNCHANGED globalAuthConfig
                           ELSE /\ session' = [phase |-> "ready",
                                               baseUrl |-> baseUrl.value,
                                               authConfig |-> authConfig.value,
                                               tools |-> toolDefs.value]
                                /\ globalAuthConfig' = authConfig.value
  /\ UNCHANGED <<accessToken, refreshToken, clientId, clientSecret, codeVerifier,
                    callVars, lastCall>>

\* The documents handed to the SDK.
SdkDocs == SecurityDocs

\* tools[name] = tool({...}) for each tool definition, in order (lib.ts:58-63).
RECURSIVE ToolSet(_, _)
ToolSet(toolDefs, tools) ==
  IF toolDefs = <<>> THEN tools
  ELSE Bind(Put(tools, toolDefs[1].name, toolDefs[1]),
            LAMBDA next : ToolSet(Tail(toolDefs), next))

\* The Error createTools throws for an API with authentication (lib.ts:47-51).
RequiresAuthentication(type) ==
  Err("Error", "This API requires authentication (" \o type \o ")")

\* createTools(options) of the SDK (lib.ts:38-55 and the loop at 58-63):
\* loadOpenAPISpec, extractBaseUrl, extractAuthConfig, the test of the
\* configuration's type, parseOperations, new AuthManager, the tool set.
CreateTools(d, loaded) ==
  /\ session = NoSession
  /\ IF loaded # "ok"
       THEN /\ session' = Failed("loadOpenAPISpec", LoadError(loaded))
            /\ UNCHANGED <<doc, globalAuthConfig>>
       ELSE /\ doc' = d
            /\ \E baseUrl \in {ExtractBaseUrl(d)} :
                 IF ~baseUrl.ok
                   THEN session' = Failed("extractBaseUrl", baseUrl)
                        /\ UNCHANGED globalAuthConfig
                   ELSE \E authConfig \in {ExtractAuthConfig(d)} :
                     IF ~authConfig.ok
                       THEN session' = Failed("extractAuthConfig", authConfig)
                            /\ UNCHANGED globalAuthConfig
                     ELSE IF authConfig.value.type # "none"
                       THEN session' = [phase |-> "sdkFailed", operation |-> "createTools",
                                        error |-> RequiresAuthentication(
                                                    authConfig.value.type).error]
                            /\ UNCHANGED globalAuthConfig
                       ELSE \E toolDefs \in {ParseOperations(d)} :
                         IF ~toolDefs.ok
                           THEN session' = Failed("parseOperations", toolDefs)
                                /\ UNCHANGED globalAuthConfig
                           ELSE /\ session' = [phase |-> "sdk",
                                               baseUrl |-> baseUrl.value,
                                               authConfig |-> authConfig.value,
                                               toolSet |-> ToolSet(toolDefs.value,
                                                                   EmptyObject)]
                                /\ globalAuthConfig' = authConfig.value
  /\ UNCHANGED <<accessToken, refreshToken, clientId, clientSecret, codeVerifier,
                    callVars, lastCall>>

\* The session has its tools, and its consumer awaits no invocation.
Ready == session.phase = "ready" /\ lastCall.result # "pending"

\* The session's AuthManager exists (cli.ts:78, lib.ts:54): from then on its
\* consumer may set the credential at any time.
HasAuthManager == session.phase = "ready"

\* tools[i].execute(params), up to the await of fetch
Execute(i, params) ==
  /\ Ready /\ i \in DOMAIN session.tools
  /\ lastCall' = [op |-> "execute", tool |-> i, name |-> session.tools[i].name,
                  params |-> params, held |-> accessToken]
                 @@ ExecuteTool(session.tools[i], session.baseUrl, globalAuthConfig,
                                accessToken, params)
  /\ UNCHANGED <<authVars, callVars, doc, session>>

\* executeToolByName(tools, toolName, params), up to the await of fetch
ExecuteToolByName(toolName, params) ==
  LET found == {i \in DOMAIN session.tools : session.tools[i].name = toolName} IN
  /\ Ready
  /\ lastCall' =
       IF found = {}
         THEN [op |-> "executeToolByName", tool |-> 0, name |-> toolName,
               params |-> params, held |-> accessToken, validated |-> None,
               request |-> None,
               result |-> "threw",
               error |-> [class |-> "Error", message |-> "Tool not found: " \o toolName]]
         ELSE LET i == CHOOSE j \in found : \A k \in found : j <= k IN
              [op |-> "executeToolByName", tool |-> i, name |-> toolName,
               params |-> params, held |-> accessToken]
              @@ ExecuteTool(session.tools[i], session.baseUrl, globalAuthConfig,
                             accessToken, params)
  /\ UNCHANGED <<authVars, callVars, doc, session>>

\* A handling of the response that drops the credential when the API
\* answers 401.
Respond_DropsCredential(answer) ==
  /\ lastCall.result = "pending"
  /\ \E data \in {HandleAnswer(session.tools[lastCall.tool], lastCall.request.value,
                                answer)} :
       lastCall' = [answer |-> answer]
                   @@ IF data.ok
                        THEN [data |-> data.value]
                             @@ [lastCall EXCEPT !.result = "returned"]
                        ELSE [lastCall EXCEPT
                                !.result = "threw",
                                !.error = Catch(session.tools[lastCall.tool],
                                                data.error)]
  /\ accessToken' = IF answer.kind = "response" /\ answer.status = 401
                      THEN Undefined ELSE accessToken
  /\ UNCHANGED <<globalAuthConfig, refreshToken, clientId, clientSecret, codeVerifier,
                 callVars, doc, session>>

\* fetch settles and the executor handles the response
\* (tool-executor.ts:95-147).
Respond(answer) ==
  /\ lastCall.result = "pending"
  /\ \E data \in {HandleAnswer(session.tools[lastCall.tool], lastCall.request.value,
                                answer)} :
       lastCall' = [answer |-> answer]
                   @@ IF data.ok
                        THEN [data |-> data.value]
                             @@ [lastCall EXCEPT !.result = "returned"]
                        ELSE [lastCall EXCEPT
                                !.result = "threw",
                                !.error = Catch(session.tools[lastCall.tool],
                                                data.error)]
  /\ UNCHANGED <<authVars, callVars, doc, session>>

NextTools ==
  \/ \E d \in Docs, loaded \in LoadOutcomes : StartSession(d, loaded)
  \/ \E d \in SdkDocs, loaded \in LoadOutcomes : CreateTools(d, loaded)
  \/ \E t \in Credentials : HasAuthManager /\ SetAccessToken(t)
  \/ \E i \in 1..2, p \in ParamInputs : Execute(i, p)
  \/ \E name \in ToolNames, p \in NamedInputs : ExecuteToolByName(name, p)
  \/ \E n \in NetworkAnswers : Respond(n)

SpecTools == InitTools /\ [][NextTools]_vars

----------------------------------------------------------------------------
\* Parameter placement (claims C4, C5).

ToolsOfSession == IF session.phase = "ready" THEN session.tools ELSE <<>>
FieldSet(tool) == Keys(tool.parameters.shape)

\* C4: for every tool definition parseOperations returns, pathParams,
\* queryParams and bodyParams are pairwise disjoint and their union is the
\* field set of the tool's parameter validator, also when parameters or body
\* properties share a name.
C4_PlacementSetsPartitionFields ==
  \A i \in DOMAIN ToolsOfSession :
    LET m == ToolsOfSession[i].parameterMetadata IN
    /\ m.pathParams \cap m.queryParams = {}
    /\ m.queryParams \cap m.bodyParams = {}
    /\ m.pathParams \cap m.bodyParams = {}
    /\ m.pathParams \cup m.queryParams \cup m.bodyParams = FieldSet(ToolsOfSession[i])

\* The invocation in lastCall built a request for the tool it names.
Sent == lastCall.op # "none" /\ lastCall.request.defined
CalledTool == session.tools[lastCall.tool]
Without(object, key) == SelectSeq(object, LAMBDA e : e.key # key)
\* The request parts a validated field went into.
InPath(f) ==
  lastCall.request.value.url
    # BuildUrl(session.baseUrl, CalledTool.path, Without(lastCall.validated.value, f))
InQuery(f) == HasKey(lastCall.request.value.query, f)
InBody(f) ==
  lastCall.request.value.body.defined /\ HasKey(lastCall.request.value.body.value, f)
DefinedFields ==
  {f \in Keys(lastCall.validated.value) : ~Has(Get(lastCall.validated.value, f), "undef")}

\* C5: every validated field is sent in the one request part its placement
\* metadata names -- a path field only in the path, a query field only as a
\* string-coerced query entry, a body field (or a field of no set) only in
\* the body, whatever the type of its value -- and an absent optional query
\* field adds no query entry.
C5_FieldsGoWhereMetadataSays ==
  Sent =>
    LET m == CalledTool.parameterMetadata
        carriesBody == CalledTool.httpMethod \in {"POST", "PUT", "PATCH"}
    IN /\ \A f \in DefinedFields :
            /\ f \in m.pathParams => InPath(f) /\ ~InQuery(f) /\ ~InBody(f)
            /\ f \in m.queryParams =>
                 /\ InQuery(f) /\ ~InPath(f) /\ ~InBody(f)
                 /\ Get(lastCall.request.value.query, f)
                      = String(Get(lastCall.validated.value, f))
            /\ (f \in m.bodyParams \/ f \notin m.pathParams \cup m.queryParams) =>
                 /\ ~InPath(f) /\ ~InQuery(f)
                 /\ carriesBody => InBody(f)
       /\ \A f \in m.queryParams \ DefinedFields : ~InQuery(f)

----------------------------------------------------------------------------
\* Credentials on the request (claims C6, C8) and the resolution of an
\* operation's security (claim C7).

\* The request headers other than the one the body adds.
AuthHeaders == Without(lastCall.request.value.headers, "Content-Type")
\* The query entries that are no field of the tool.
AuthQuery ==
  SelectSeq(lastCall.request.value.query, LAMBDA e : e.key \notin FieldSet(CalledTool))
CredentialSet == Truthy(lastCall.held)

\* C6: a tool whose resolved configuration is {type: none} gets no auth
\* header and no auth query parameter, whatever credential is held and
\* whatever the global configuration is; a tool whose own configuration is
\* not none has the credential rendered as its own configuration says.
C6_ToolConfigDecidesCredential ==
  (Sent /\ lastCall.result = "pending") =>
    LET config == CalledTool.authConfig IN
    /\ config.type = "none" => AuthHeaders = <<>> /\ AuthQuery = <<>>
    /\ (config.type # "none" /\ CredentialSet) =>
         /\ config.type \in {"bearer", "oauth2", "basic"} =>
              /\ Keys(AuthHeaders) = {"Authorization"} /\ AuthQuery = <<>>
         /\ (config.type = "apiKey" /\ config.apiKeyIn = "header") =>
              /\ AuthHeaders = <<Entry(config.apiKeyHeader, lastCall.held)>>
              /\ AuthQuery = <<>>
         /\ (config.type = "apiKey" /\ config.apiKeyIn = "query") =>
              /\ AuthQuery = <<Entry(config.apiKeyHeader, lastCall.held)>>
              /\ AuthHeaders = <<>>

\* A tool resolved to none sends a bare request while the session's global
\* configuration asks for an API key and the key is held.
C6_Witness ==
  /\ Sent /\ lastCall.result = "pending"
  /\ CalledTool.authConfig = NoneConfig
  /\ globalAuthConfig = ApiKeyHeaderConfig
  /\ lastCall.held = "secret123"
  /\ lastCall.request.value.headers = <<Entry("Content-Type", "application/json")>>
  /\ lastCall.request.value.query = <<>>

\* The operation a tool was made from.
OperationOf(tool) == Get(doc.paths, tool.path)[ToLowerCase(tool.httpMethod)]
\* The configuration a security list stands for: none for the empty list,
\* else what the scheme its first requirement names declares.
SchemeConfig(scheme) ==
  IF scheme.type = "apiKey" THEN Cfg("apiKey", Undefined, Undefined, scheme.name, scheme.in)
  ELSE IF scheme.type = "http" /\ scheme.scheme = "bearer" THEN BearerConfig
  ELSE IF scheme.type = "http" /\ scheme.scheme = "basic" THEN BasicConfig
  ELSE IF scheme.type = "oauth2" THEN OAuthConfig
  ELSE NoneConfig
ListConfig(list) ==
  LET schemes == Chain(Field(doc, "components"), "securitySchemes") IN
  IF list = <<>> \/ ~schemes.defined \/ ~HasKey(schemes.value, list[1][1].key)
    THEN NoneConfig
    ELSE SchemeConfig(Get(schemes.value, list[1][1].key))

\* C7: an operation that declares its own security, even an empty list, is
\* resolved from that list alone; any other operation from the document's
\* global security; an empty list at either level gives {type: none}.
C7_OperationSecurityWins ==
  \A i \in DOMAIN ToolsOfSession :
    LET tool == ToolsOfSession[i]
        operation == OperationOf(tool)
    IN /\ Has(operation, "security") => tool.authConfig = ListConfig(operation.security)
       /\ (~Has(operation, "security") /\ Has(doc, "security")) =>
            tool.authConfig = ListConfig(doc.security)
       /\ (~Has(operation, "security") /\ ~Has(doc, "security")) =>
            tool.authConfig = NoneConfig
       /\ (Has(operation, "security") /\ operation.security = <<>>) =>
            tool.authConfig = NoneConfig
       /\ (~Has(operation, "security") /\ Has(doc, "security") /\ doc.security = <<>>) =>
            tool.authConfig = NoneConfig

\* Global scheme A, createUser declares security: []: createUser resolves to
\* none and listUsers to A.
C7_Witness ==
  /\ session.phase = "ready"
  /\ doc = SecurityDoc(Some(<<Requirement("A")>>), Some(<<>>),
                       Some(<<Entry("A", SchemeApiKeyHeader), Entry("B", SchemeBearer)>>))
  /\ session.tools[1].name = "listUsers"
  /\ session.tools[1].authConfig = ApiKeyHeaderConfig
  /\ session.tools[2].name = "createUser"
  /\ session.tools[2].authConfig = NoneConfig

\* C8: with an apiKey configuration and a credential set, the credential is
\* the named header or the named query parameter, as the placement says, and
\* never both; bearer and oauth2 render as Authorization: Bearer <token>,
\* basic as Authorization: Basic <token>.
C8_ApiKeyHeaderOrQueryNeverBoth ==
  (Sent /\ lastCall.result = "pending" /\ CredentialSet) =>
    LET config == CalledTool.authConfig
        headers == lastCall.request.value.headers
        query == lastCall.request.value.query
    IN /\ config.type = "apiKey" =>
            /\ ~(HasKey(headers, config.apiKeyHeader) /\ HasKey(query, config.apiKeyHeader))
            /\ config.apiKeyIn = "header" =>
                 /\ HasKey(headers, config.apiKeyHeader)
                 /\ Get(headers, config.apiKeyHeader) = lastCall.held
                 /\ ~HasKey(query, config.apiKeyHeader)
            /\ config.apiKeyIn = "query" =>
                 /\ HasKey(query, config.apiKeyHeader)
                 /\ Get(query, config.apiKeyHeader) = lastCall.held
                 /\ ~HasKey(headers, config.apiKeyHeader)
       /\ config.type \in {"bearer", "oauth2"} =>
            /\ HasKey(headers, "Authorization")
            /\ Get(headers, "Authorization") = "Bearer " \o lastCall.held
       /\ config.type = "basic" =>
            /\ HasKey(headers, "Authorization")
            /\ Get(headers, "Authorization") = "Basic " \o lastCall.held

\* Global apiKey in header X-API-Key, setAccessToken("secret123"), then a
\* tool is invoked: the header is attached and the query string is empty.
C8_Witness ==
  /\ Sent /\ lastCall.result = "pending"
  /\ globalAuthConfig = ApiKeyHeaderConfig
  /\ CalledTool.authConfig = ApiKeyHeaderConfig
  /\ lastCall.params = Obj(<<>>)
  /\ lastCall.request.value.headers = <<Entry("X-API-Key", "secret123")>>
  /\ lastCall.request.value.query = <<>>

----------------------------------------------------------------------------
\* The errors that reach a consumer (claims C9, C10).

\* The invocation in lastCall ran a tool's execute, which threw.
ExecuteThrew == lastCall.op # "none" /\ lastCall.tool # 0 /\ lastCall.result = "threw"

\* C9: whatever makes a tool's execute fail -- validation, URL construction,
\* transport, response parsing, a non-2xx status -- the caller gets a
\* ToolExecutionError carrying the tool's name and the cause, and nothing else.
C9_ExecuteThrowsToolExecutionError ==
  /\ ExecuteThrew =>
       /\ lastCall.error.class = "ToolExecutionError"
       /\ lastCall.error.toolName = CalledTool.name
       /\ lastCall.error.cause.class \in {"Error", "TypeError", "SyntaxError"}
       /\ lastCall.error.message
            = "Tool " \o CalledTool.name \o " failed: " \o lastCall.error.cause.message
       /\ ~lastCall.validated.defined =>
            lastCall.error.cause.message = "Invalid parameters: validation failed"
       /\ (lastCall.validated.defined /\ ~lastCall.request.defined) =>
            lastCall.error.cause = [class |-> "TypeError", message |-> "Invalid URL"]
  /\ (lastCall.op # "none" /\ lastCall.result # "threw") => lastCall.error = NoError

\* fetch rejected, and the caller of execute got the rejection wrapped.
C9_Witness ==
  /\ lastCall.op = "execute" /\ lastCall.result = "threw"
  /\ lastCall.request.defined
  /\ lastCall.error.class = "ToolExecutionError"
  /\ lastCall.error.toolName = "get_users"
  /\ lastCall.error.cause = [class |-> "TypeError", message |-> "fetch failed"]

NamedErrorKinds ==
  {"SpecLoadError", "UnsupportedSchemaError", "AuthenticationError", "ToolExecutionError"}

\* C10: every failure a core operation surfaces -- loadOpenAPISpec,
\* extractBaseUrl, extractAuthConfig, parseOperations, authenticate, a tool's
\* execute, executeToolByName -- is a SpecLoadError, an UnsupportedSchemaError,
\* an AuthenticationError or a ToolExecutionError.
C10_OnlyNamedErrorKinds ==
  /\ session.phase = "failed" => session.error.class \in NamedErrorKinds
  /\ lastCall.result = "threw" => lastCall.error.class \in NamedErrorKinds
  /\ \A a \in Attempts : thrown[a] \in NamedErrorKinds \cup {"none"}

----------------------------------------------------------------------------
\* Validation before the request (claim C11).

\* The invocation in lastCall reached the executor of a tool.
Invoked == lastCall.op # "none" /\ lastCall.tool # 0
ParamsValid == ZodParse(CalledTool.parameters, lastCall.params).ok

\* C11: execute validates rawParams before anything else -- when validation
\* fails the call fails with ToolExecutionError and no HTTP request is
\* issued, whatever else is wrong with the session -- and getUser
\* (GET /users/{id}) given {id: 42} sends its request to {baseUrl}/users/42.
C11_ValidationBeforeRequest ==
  Invoked =>
    /\ ~ParamsValid =>
         /\ lastCall.result = "threw"
         /\ ~lastCall.request.defined
         /\ lastCall.error
              = ToolExecutionError(CalledTool.name,
                                   [class |-> "Error",
                                    message |-> "Invalid parameters: validation failed"])
    /\ (CalledTool.name = "getUser" /\ lastCall.params = Obj(<<Entry("id", Num(42))>>)) =>
         /\ lastCall.request.defined
         /\ lastCall.request.value.method = "GET"
         /\ UrlToString(lastCall.request.value.url, lastCall.request.value.query)
              = "https://api.test/users/42"
         /\ ~lastCall.request.value.body.defined

\* getUser invoked with {} fails at validation and sends nothing.
C11_Witness ==
  /\ Invoked /\ CalledTool.name = "getUser" /\ lastCall.params = Obj(<<>>)
  /\ lastCall.result = "threw" /\ ~lastCall.request.defined
  /\ lastCall.error.class = "ToolExecutionError" /\ lastCall.error.toolName = "getUser"

----------------------------------------------------------------------------
\* The request body (claim C12).

\* The body fields an invocation gave: the validated fields with a value
\* that the metadata names as body fields or names nowhere.
BodyFieldsGiven ==
  LET m == CalledTool.parameterMetadata IN
  {f \in DefinedFields : f \in m.bodyParams \/ f \notin m.pathParams \cup m.queryParams}

\* C12: execute sends a body exactly when the method is POST, PUT or PATCH
\* and at least one body field is present; the body is then the JSON object
\* of exactly the body fields given, with Content-Type: application/json;
\* in every other case no body and no Content-Type header are sent.
C12_BodyExactlyForBodyFields ==
  Sent =>
    LET request == lastCall.request.value IN
    IF CalledTool.httpMethod \in {"POST", "PUT", "PATCH"} /\ BodyFieldsGiven # {}
      THEN /\ request.body.defined
           /\ Keys(request.body.value) = BodyFieldsGiven
           /\ \A f \in BodyFieldsGiven :
                Get(request.body.value, f) = Get(lastCall.validated.value, f)
           /\ HasKey(request.headers, "Content-Type")
           /\ Get(request.headers, "Content-Type") = "application/json"
      ELSE /\ ~request.body.defined
           /\ ~HasKey(request.headers, "Content-Type")

----------------------------------------------------------------------------
\* What the translator rejects (claims C13 to C17).

\* The session parsed the document it loaded.
Parsed == session.phase = "ready"
\* parseOperations refused the document as unsupported.
Refused ==
  /\ session.phase = "failed" /\ session.operation = "parseOperations"
  /\ session.error.class = "UnsupportedSchemaError"

\* C13: translation ends on every document, and a reference cycle among the
\* component schemas -- a chain of $ref, or a return through array items or
\* object properties -- as well as a reference of another form or to a
\* missing component makes it fail with UnsupportedSchemaError.
C13_CyclesAndBadRefsAreUnsupported ==
  doc \in UnresolvableDocs => Refused

\* The validator the one tool of a parsed document has for its field filter.
FilterValidator == Get(session.tools[1].parameters.shape, "filter")

\* C14: an array whose item schema is an object is rejected with
\* UnsupportedSchemaError at every depth, also when the items are an object
\* only after $ref resolution or by having properties without a type; an
\* array of primitives is translated, its items at the depth of the array.
C14_ArraysOfObjectsAreUnsupported ==
  /\ doc \in ObjectArrayDocs => Refused
  /\ (doc \in PrimitiveArrayDocs /\ session # NoSession) =>
       /\ Parsed
       /\ doc = InParameter(StringArray) => FilterValidator = Optional(ZArray(ZString))
       /\ doc = InBodyProperty(StringArray) => FilterValidator = Optional(ZArray(ZString))
       /\ doc = InBodyProperty(Nested(StringArray)) =>
            FilterValidator
              = Optional(ZObject(<<Entry("inner", Optional(ZArray(ZString)))>>))

\* C15: translation fails with UnsupportedSchemaError for every schema node
\* that is a string with binary format, wherever the node is: a parameter
\* schema, the request-body root, a body property, a property nested in a
\* body property, an array item, or a node behind a $ref.
C15_FileUploadsAreUnsupported ==
  doc \in BinaryDocs => Refused

\* C16: a request body with an object property whose own property is an
\* object fails translation with UnsupportedSchemaError, and a request body
\* with exactly one level of object nesting translates; each object level
\* adds 1 to the depth and an array adds 0.
C16_BodyNestingLimit ==
  /\ doc \in TwoLevelBodyDocs => Refused
  /\ (doc \in OneLevelBodyDocs /\ session # NoSession) => Parsed
  /\ (doc = InBodyProperty(Address) /\ session # NoSession) =>
       FilterValidator
         = Optional(ZObject(<<Entry("city", ZString),
                              Entry("tags", Optional(ZArray(ZString)))>>))

\* A body whose property holds an Address is refused for its nesting.
C16_Witness ==
  /\ doc = InBodyProperty(Nested(Address)) /\ Refused
  /\ session.error.message = "Nested objects beyond 1 level are not supported"

\* C17: parseOperations is all-or-nothing -- if the schema of any parameter
\* or request body of any operation is unsupported, the call fails with
\* UnsupportedSchemaError and returns no tool definition, also for the
\* operations walked before the offending one.
C17_NoPartialToolSet ==
  doc \in MixedDocs => Refused /\ ~Has(session, "tools")

\* The third operation walked has a file upload as its body: the two tools
\* made before it are not returned.
C17_Witness ==
  /\ Refused /\ ~Has(session, "tools")
  /\ session.error.message = "File uploads are not supported"
  /\ Len(doc.paths) = 2 /\ Has(doc.paths[2].value, "put")

----------------------------------------------------------------------------
\* Tool names (claim C18).

\* C18: no two tool definitions parseOperations returns for one document
\* have the same name, whether the names come from operationId or are
\* synthesized from method and path.
C18_ToolNamesAreUnique ==
  \A i, j \in DOMAIN ToolsOfSession :
    i # j => ToolsOfSession[i].name # ToolsOfSession[j].name

----------------------------------------------------------------------------
\* The classification of responses (claim C19).

\* The invocation in lastCall got a response to its request.
Answered == Has(lastCall, "answer") /\ lastCall.answer.kind = "response"

\* The hint the message of a failed status ends with.
HintFor(status) ==
  CASE status = 401 -> "\nAuthentication failed. Check your API key/token."
    [] status = 403 -> "\nAccess forbidden. Verify your permissions."
    [] status = 404 -> "\nResource not found."
    [] status = 429 -> "\nRate limit exceeded. Try again later."
    [] status >= 500 -> "\nServer error. The API service may be experiencing issues."
    [] OTHER -> ""

\* C19: a non-2xx response makes execute fail with a ToolExecutionError
\* whose message holds "HTTP <status>", the method and the URL, the response
\* payload and the hint of the status (401, 403, 404, 429, >= 500); a 2xx
\* response never produces an error and returns the parsed body.
C19_ResponseClassification ==
  Answered =>
    LET answer == lastCall.answer
        request == lastCall.request.value
    IN IF answer.status \in 200..299
         THEN lastCall.result = "returned" /\ lastCall.data = answer.text
         ELSE /\ lastCall.result = "threw"
              /\ lastCall.error.class = "ToolExecutionError"
              /\ lastCall.error.toolName = CalledTool.name
              /\ lastCall.error.cause.message
                   = "HTTP " \o ToString(answer.status) \o " " \o answer.statusText
                     \o "\nURL: " \o request.method \o " "
                     \o UrlToString(request.url, request.query)
                     \o "\nResponse: " \o answer.text
                     \o HintFor(answer.status)

----------------------------------------------------------------------------
\* The frame of an invocation (claim C20).

\* C20: a tool invocation, whether it succeeds or fails, leaves the state of
\* the Auth Manager (credential, client id and secret, PKCE verifier) and
\* the session with its tool list unchanged, so a later invocation observes
\* what the earlier one observed.
C20_InvocationLeavesStateUnchanged ==
  [][lastCall' # lastCall => UNCHANGED <<authVars, session>>]_vars

\* An invocation failed on a 401 answer and the credential it sent is still
\* the one the Auth Manager holds.
C20_Witness ==
  /\ Answered /\ lastCall.answer.status = 401 /\ lastCall.result = "threw"
  /\ lastCall.held = "secret123" /\ accessToken = "secret123"
  /\ Len(session.tools) = 2

----------------------------------------------------------------------------
\* Rendering the credential is a pure function (claim C21).

\* The arguments getAuthHeaders and getAuthQueryParams are called with.
Overrides == AuthConfigs \cup {NoOverride}
\* The step in which the executor calls both and builds its request:
\* createExecutor, tool-executor.ts:53-77.
RendersCredential == lastCall' # lastCall /\ lastCall'.result = "pending"

\* C21: getAuthHeaders and getAuthQueryParams depend on the credential held
\* and on the effective configuration (the override, else the global one)
\* alone; the step that calls them changes no field of the Auth Manager; a
\* second call, made after the first, returns what the first returned; and
\* both return the empty map while no credential is set.
C21_RenderingIsPure ==
  /\ [](\A o \in Overrides :
          /\ \A g \in AuthConfigs :
               /\ GetAuthHeaders(o, globalAuthConfig, accessToken)
                    = GetAuthHeaders(Effective(o, globalAuthConfig), g, accessToken)
               /\ GetAuthQueryParams(o, globalAuthConfig, accessToken)
                    = GetAuthQueryParams(Effective(o, globalAuthConfig), g, accessToken)
          /\ ~Truthy(accessToken) =>
               /\ GetAuthHeaders(o, globalAuthConfig, accessToken) = EmptyObject
               /\ GetAuthQueryParams(o, globalAuthConfig, accessToken) = EmptyObject)
  /\ [][RendersCredential =>
          LET tool == session.tools[lastCall'.tool]
              sent == lastCall'.request.value
              headers == Without(sent.headers, "Content-Type")
              query == SelectSeq(sent.query, LAMBDA e : e.key \notin FieldSet(tool))
          IN /\ UNCHANGED authVars
             /\ headers = GetAuthHeaders(tool.authConfig, globalAuthConfig', accessToken')
             /\ query = GetAuthQueryParams(tool.authConfig, globalAuthConfig', accessToken')
             /\ ~Truthy(accessToken) => headers = EmptyObject /\ query = EmptyObject]_vars

\* A tool whose configuration asks for a bearer token is invoked while no
\* credential is set: the request carries no Authorization header.
C21_Witness ==
  /\ Sent /\ lastCall.result = "pending"
  /\ CalledTool.authConfig = BearerConfig
  /\ lastCall.held = Undefined /\ accessToken = Undefined
  /\ AuthHeaders = <<>> /\ AuthQuery = <<>>

----------------------------------------------------------------------------
\* The SDK and authentication (claim C22).

\* createTools returned a tool set / threw its own Error.
SdkReturned == session.phase = "sdk"
SdkThrew == session.phase = "sdkFailed"
\* Some operation of the document resolves to a configuration other than none.
SomeOperationRequiresAuth ==
  \E p \in DOMAIN doc.paths, method \in {ToLowerCase(m) : m \in SeqToSet(HTTP_METHODS)} :
    /\ Has(doc.paths[p].value, method)
    /\ \E resolved \in {ExtractOperationAuthConfig(doc, doc.paths[p].value[method])} :
         resolved.ok /\ resolved.value.type # "none"

\* C22: createTools throws an Error whenever the API requires authentication,
\* and every tool of a tool set it returns belongs to an operation whose
\* resolved configuration is {type: none}: also when the document has no
\* global security and an operation declares a security requirement of its own.
C22_SdkRefusesAuthenticatedApis ==
  /\ SdkThrew => session.error.class = "Error"
  /\ (SdkReturned \/ SdkThrew) =>
       /\ ExtractAuthConfig(doc).value.type # "none" => SdkThrew
       /\ SomeOperationRequiresAuth => SdkThrew
  /\ SdkReturned =>
       \A name \in Keys(session.toolSet) :
         Get(session.toolSet, name).authConfig.type = "none"

----------------------------------------------------------------------------
\* Tool names (claim C23).

\* The name a path gives: its pieces without the braces, a slash that opens
\* the path dropped, every other slash written as an underscore.
RECURSIVE Underscored(_)
Underscored(pieces) ==
  IF pieces = <<>> THEN ""
  ELSE (IF pieces[1] = "/" THEN "_" ELSE pieces[1]) \o Underscored(Tail(pieces))
NameOfPath(path) ==
  LET pieces == SelectSeq(path, LAMBDA p : p # "{" /\ p # "}")
  IN IF pieces # <<>> /\ pieces[1] = "/" THEN Underscored(Tail(pieces))
     ELSE Underscored(pieces)

----------------------------------------------------------------------------
\* The order of the OAuth2 steps (claim C24).

OAuthCall(a) == cfg[a].type = "oauth2"
\* The steps of a call, as the state records them.
ListenerStarted(a) == srv[a] # "none" \/ timer[a] # "unset" \/ wait[a] # NoPromise
ExchangeIssued(a) == tokenReq[a] # NoRequest
\* A step of call a writes the access credential.
WritesCredential(a) == pc'[a] # pc[a] /\ accessToken' # accessToken

\* C24: an oauth2 authenticate() starts its listener only once its client
\* registration has completed, issues the token exchange only after a callback
\* delivered an authorization code, and writes the access credential only on a
\* successful token exchange; a call that failed, at the registration, at the
\* wait for the callback or at the exchange, performs no later step and
\* writes no access credential.
C24_OAuthStepsInOrder ==
  /\ [](\A a \in Attempts : OAuthCall(a) =>
          /\ pc[a] \in {"idle", "registering"} => ~ListenerStarted(a) /\ ~ExchangeIssued(a)
          /\ ListenerStarted(a) => clientId # Undefined
          /\ pc[a] = "waiting" => ~ExchangeIssued(a)
          /\ ExchangeIssued(a) =>
               /\ firstEvent[a] = "code"
               /\ wait[a] = [state |-> "fulfilled", value |-> tokenReq[a].code]
          /\ pc[a] = "done" => ExchangeIssued(a))
  /\ [][\A a \in Attempts : OAuthCall(a) =>
          /\ WritesCredential(a) =>
               /\ pc[a] = "exchanging" /\ pc'[a] = "done"
               /\ accessToken' = IssuedToken
          /\ pc[a] = "failed" =>
               /\ pc'[a] = "failed"
               /\ ListenerStarted(a)' = ListenerStarted(a)
               /\ tokenReq'[a] = tokenReq[a]]_vars

\* A call went through registration, callback and exchange and holds the
\* issued token, after a first call had failed at the exchange.
C24_Witness ==
  /\ OAuthCall(1) /\ pc[1] = "failed" /\ ExchangeIssued(1)
  /\ OAuthCall(2) /\ pc[2] = "done" /\ ExchangeIssued(2) /\ firstEvent[2] = "code"
  /\ accessToken = IssuedToken

----------------------------------------------------------------------------
\* The state parameter of the callback (claim C25).

\* The step in which the wait of call a is resolved with a code.
AcceptsCode(a) == wait[a].state = "pending" /\ wait'[a].state = "fulfilled"

\* C25: the code of a callback is accepted, and the wait resolved with it,
\* only when the state parameter of the callback equals the state value
\* generated for the authorization URL of that flow.
C25_CodeAcceptedOnlyWithFlowState ==
  [][\A a \in Attempts :
       AcceptsCode(a) =>
         /\ inflight[a] # <<>>
         /\ Head(inflight[a]).state = browser[a].state]_vars

----------------------------------------------------------------------------
\* Overlapping OAuth2 calls (claim C26).

\* C26: the token exchange of a call sends the client id and the client
\* secret its own registration was given and the PKCE verifier generated for
\* its own authorization URL, also while another authenticate() call runs on
\* the same Auth Manager.
C26_ExchangeUsesOwnClientAndVerifier ==
  \A a \in Attempts :
    ExchangeIssued(a) =>
      /\ tokenReq[a].client_id = ClientIdOf(a)
      /\ tokenReq[a].client_id = browser[a].client_id
      /\ tokenReq[a].client_secret \in {SecretOf(a), Undefined}
      /\ tokenReq[a].code_verifier = VerifierOf(a)

----------------------------------------------------------------------------
\* The credential after a failed authenticate() (claim C27).

\* A step of call a other than its successful end, in which the call has
\* thrown nothing but an AuthenticationError.
StepTowardsAuthenticationError(a) ==
  /\ pc'[a] # pc[a] /\ pc'[a] # "done"
  /\ thrown'[a] \in {"none", "AuthenticationError"}

\* C27: an authenticate() that fails with AuthenticationError, for apiKey,
\* bearer or basic with empty input and for oauth2 at any step, leaves the
\* access credential as it was before the call: no step of such a call
\* writes it.
C27_FailedAuthenticateKeepsCredential ==
  [][\A a \in Attempts :
       StepTowardsAuthenticationError(a) => accessToken' = accessToken]_vars

----------------------------------------------------------------------------
\* A new attempt after an ended one (claim C28).

\* What an ended call a has left behind acts: its timer fires, or a request
\* its listener had accepted is handled.
LeftoverEvent(a) == Ended(a) /\ (timer'[a] # timer[a] \/ inflight'[a] # inflight[a])

\* C28: once an oauth2 authenticate() has ended its listener holds the port
\* no longer, so a new call can bind it; and what the ended call left behind,
\* its 5-minute timer above all, neither closes the listener of the other
\* call nor settles its wait, fails it, or touches the manager's fields.
C28_EarlierAttemptLeavesNewOneAlone ==
  /\ [](\A a \in Attempts : (Ended(a) /\ OAuthCall(a)) => srv[a] \in {"none", "bindFailed", "closed"})
  /\ [][\A a \in Attempts : \A b \in Attempts \ {a} :
          LeftoverEvent(a) =>
            /\ srv'[b] = srv[b] /\ wait'[b] = wait[b]
            /\ pc'[b] = pc[b] /\ thrown'[b] = thrown[b]
            /\ UNCHANGED authVars]_vars

\* The first call failed on an error callback and its timer has fired; the
\* second call, made after that failure, has its code and its listener's
\* timer is still armed.
C28_Witness ==
  /\ OAuthCall(1) /\ pc[1] = "failed" /\ firstEvent[1] = "error" /\ timer[1] = "fired"
  /\ OAuthCall(2) /\ pc[2] = "done" /\ firstEvent[2] = "code" /\ timer[2] = "armed"
  /\ srv[2] = "closed" /\ closeCalls[2] = 1

----------------------------------------------------------------------------
\* Listener, browser and PKCE verifier (claim C29).

BrowserOpened(a) == browser[a] # NoUrl
\* A request to /callback of call a has been accepted or handled.
CallbackSeen(a) == inflight[a] # <<>> \/ firstEvent[a] \in {"code", "error", "empty"}

\* C29: the browser of a call is opened only once its listener is bound to
\* the port; while the listener can take callbacks the verifier of that call
\* is stored, so it is stored before any callback is handled, and it is the
\* one the token exchange sends; a call whose listener could not bind the
\* port opens no browser and generates no verifier.
C29_BrowserAndVerifierFollowBind ==
  \A a \in Attempts :
    /\ BrowserOpened(a) =>
         /\ srv[a] \in {"bound", "closed"} /\ ~tick[a]
         /\ browser[a].code_challenge = Challenge(VerifierOf(a))
    /\ (srv[a] = "bound" /\ ~tick[a]) => BrowserOpened(a) /\ codeVerifier = VerifierOf(a)
    /\ CallbackSeen(a) => BrowserOpened(a)
    /\ ExchangeIssued(a) =>
         /\ tokenReq[a].code_verifier # Undefined
         /\ Challenge(tokenReq[a].code_verifier) = browser[a].code_challenge
    /\ srv[a] = "bindFailed" => ~BrowserOpened(a) /\ codeVerifier # VerifierOf(a)

\* The second call could not bind the port: no browser was opened for it and
\* the verifier held is still the one of the first call, whose exchange sent it.
C29_Witness ==
  /\ pc[1] = "done" /\ BrowserOpened(1) /\ tokenReq[1].code_verifier = VerifierOf(1)
  /\ srv[2] = "bindFailed" /\ pc[2] = "failed" /\ firstEvent[2] = "bindFailure"
  /\ ~BrowserOpened(2) /\ codeVerifier = VerifierOf(1)

----------------------------------------------------------------------------
\* Tools of one name (claim C30).

\* The operations of a path item in the order the document writes them.
WrittenKeys(pathItem) ==
  IF Has(pathItem, "keys") THEN pathItem.keys
  ELSE SelectSeq(<<"get", "post", "put", "patch", "delete">>, LAMBDA k : Has(pathItem, k))
\* The operations of a document, as <<path, method key>>, in document order.
RECURSIVE DocumentOrder(_)
DocumentOrder(entries) ==
  IF entries = <<>> THEN <<>>
  ELSE LET written == WrittenKeys(entries[1].value)
       IN [i \in DOMAIN written |-> <<entries[1].key, written[i]>>]
          \o DocumentOrder(Tail(entries))
\* The tools of the session that have the name.
Named(name) == {i \in DOMAIN session.tools : session.tools[i].name = name}
CalledByName == lastCall.op = "executeToolByName"

\* C30: parseOperations keeps every operation as a tool, tools of one name
\* included, in the order of the document; executeToolByName invokes the first
\* tool of the list that has the name and never a later one; and when no tool
\* has the name it fails without invoking any tool.
C30_FirstOfNameInDocumentOrder ==
  /\ Parsed =>
       LET written == DocumentOrder(doc.paths) IN
       /\ Len(session.tools) = Len(written)
       /\ \A i \in DOMAIN session.tools :
            /\ session.tools[i].path = written[i][1]
            /\ ToLowerCase(session.tools[i].httpMethod) = written[i][2]
  /\ CalledByName =>
       IF Named(lastCall.name) = {}
         THEN /\ lastCall.tool = 0 /\ lastCall.result = "threw"
              /\ ~lastCall.request.defined
              /\ lastCall.error.class = "Error"
         ELSE /\ lastCall.tool \in Named(lastCall.name)
              /\ \A j \in Named(lastCall.name) : lastCall.tool <= j
              /\ Sent => lastCall.request.value.method
                           = session.tools[lastCall.tool].httpMethod

====
